---- MODULE Spec2Model ----
(***************************************************************************)
(* A model of the binary DataFlash log reader of pymavlink (DFReader.py):  *)
(* DFFormat, DFMessage field access, the clocks, DFReader and              *)
(* DFReader_binary (indexer, framing and resync, recv_msg, recv_match,     *)
(* skip_to_type, rewind, last_timestamp, flightmode_list).                 *)
(*                                                                         *)
(* Data abstraction.  The log is a sequence of bytes 0..255 followed by    *)
(* `data_len - Len(data_map)` zero bytes.  Every field of a record takes   *)
(* ONE byte on the wire of the model (struct.calcsize of a format string   *)
(* is its number of characters); a string field holds the index of its     *)
(* text in a table (NameOf, FormatOf, ColumnsOf, StrOf).  The bootstrap    *)
(* FMT record is therefore 3 + 5 bytes long instead of 3 + 86.             *)
(* Times are exact: a time is [e, wk, us] and stands for                   *)
(* e * (GPS epoch - 18 s) + wk weeks + us microseconds.                    *)
(***************************************************************************)
EXTENDS Integers, Sequences, FiniteSets, TLC

VARIABLES
    pc,            \* "index", "clock1", "clock2", "ready", "failed"
    data_map,      \* self.data_map: the bytes of the file (without the zero tail)
    data_len,      \* self.data_len
    offset,        \* self.offset: the cursor
    remaining,     \* self.remaining
    prev_type,     \* self.prev_type (-1 is None)
    formats,       \* self.formats: type id -> DFFormat
    unpackers,     \* self.unpackers: type id -> struct layout cached at first use
    offsets,       \* self.offsets: type id -> list of offsets
    counts,        \* self.counts: type id -> count
    name_to_id,    \* self.name_to_id
    type_nums,     \* self.type_nums (<<-1>> is None)
    indexes,       \* self.indexes
    messages,      \* self.messages: name -> last message of that name
    flightmode,    \* self.flightmode
    mav_type,      \* self.mav_type
    params,        \* self.params
    clock,         \* self.clock
    timestamp,     \* self.timestamp
    flightmodes,   \* self._flightmodes (NoModes is None)
    unit_lookup,   \* self.unit_lookup: unit id -> label
    mult_lookup,   \* self.mult_lookup: multiplier id -> multiplier
    zero_time_base, \* self._zero_time_base
    ix,            \* locals of init_arrays: ofs, pct, the values passed to
                   \* progress_callback, lengths, fmtu_type, unit_type,
                   \* mult_type, type_instances
    ic,            \* locals of init_clock
    ret,           \* what the last public call returned
    since,         \* the calls made since the last rewind, and what they returned
    rewound        \* the reader as the last rewind left it

rvars == <<data_map, data_len, offset, remaining, prev_type, formats, unpackers,
           offsets, counts, name_to_id, type_nums, indexes, messages, flightmode,
           mav_type, params, clock, timestamp, flightmodes, unit_lookup, mult_lookup,
           zero_time_base>>
vars == <<pc, rvars, ix, ic, ret, since, rewound>>

---------------------------------------------------------------------------
(* Program constants *)
HEAD1 == 163
HEAD2 == 149
FMT_TYPE == 128
HDR_LEN == 3
TAIL_GARBAGE == 528

(* Bounds of the model *)
MaxChunks == 2
MaxReturns == 4
MaxCount == 6
MaxReplay == 7
(* `self.remaining -= 1` runs once for each byte skipped, and a scan that ends
   without a record leaves the sum standing: last_timestamp is called while
   the sum is above -MaxDrift *)
MaxDrift == 4

Max2(a, b) == IF a >= b THEN a ELSE b
Min2(a, b) == IF a <= b THEN a ELSE b
SetMin(S) == CHOOSE x \in S : \A y \in S : x <= y
Get(f, k, d) == IF k \in DOMAIN f THEN f[k] ELSE d
Put(f, k, v) == [x \in (DOMAIN f) \cup {k} |-> IF x = k THEN v ELSE f[x]]
Last(s) == s[Len(s)]

(* a step of a method: the reader after it, and whether it ran to its end
   (ok = FALSE: an exception left it there) *)
Ok(s) == [s |-> s, ok |-> TRUE]
Raise(s) == [s |-> s, ok |-> FALSE]

---------------------------------------------------------------------------
(* String tables: the text a string field's byte stands for *)
NAMES == <<"FMT", "MODE", "PARM", "GPS", "MSG", "ATT", "UNIT", "MULT",
           "GPS2", "TIME", "IMU", "ACC1", "FMTU">>
NameOf(b) == IF b = 0 THEN "" ELSE IF b \in 1..Len(NAMES) THEN NAMES[b] ELSE "n" \o ToString(b)

FORMATS == << <<"B","B","n","N","Z">>, <<"Q","n">>, <<"Q","N","f">>, <<"Q","H","I">>,
              <<"Q">>, <<"n","Q">>, <<"Q","b","Z">>, <<"Q","b","d">>, <<"I","H">>,
              <<"Q","B","N","N">>, <<"i","I">>, <<"B","N","N">>, <<"B","Z">>, <<"c","B">> >>
FormatOf(b) == IF b = 0 THEN <<>> ELSE IF b \in 1..Len(FORMATS) THEN FORMATS[b] ELSE <<"?">>

COLUMNS == << <<"Type","Length","Name","Format","Columns">>, <<"TimeUS","Mode">>,
              <<"TimeUS","Name","Value">>, <<"TimeUS","GWk","GMS">>, <<"TimeUS">>,
              <<"Mode","TimeUS">>, <<"TimeUS","Id","Label">>, <<"TimeUS","Id","Mult">>,
              <<"T","Week">>, <<"Week","TimeMS">>, <<"StartTime">>, <<"GPSTime">>,
              <<"TimeMS","Value">>, <<"Week">>, <<"TimeMS","Week","T">>,
              <<"TimeUS","FmtType","UnitIds","MultIds">>, <<"X","Y">>,
              <<"FmtType","UnitIds","MultIds">>, <<"Y","X">>, <<"X">>,
              <<"Mode","ModeNum">>, <<"X","X">> >>
ColumnsOf(b) == IF b = 0 THEN <<>> ELSE IF b \in 1..Len(COLUMNS) THEN COLUMNS[b] ELSE <<"c" \o ToString(b)>>

STRINGS == <<"A", "B", "ArduCopter", "ArduPlane", "deg", "d#", "--", "#d">>
StrOf(b) == IF b = 0 THEN "" ELSE IF b \in 1..Len(STRINGS) THEN STRINGS[b] ELSE "s" \o ToString(b)

(* the characters of StrOf(b), as the numbers chr() and ord() convert *)
CharsOf(b) ==
    LET CHARS == << <<65>>, <<66>>, <<65, 114, 100, 117, 67, 111, 112, 116, 101, 114>>,
                    <<65, 114, 100, 117, 80, 108, 97, 110, 101>>, <<100, 101, 103>>,
                    <<100, 35>>, <<45, 45>>, <<35, 100>> >>
        RECURSIVE Digits(_)
        Digits(n) == IF n < 10 THEN <<48 + n>> ELSE Append(Digits(n \div 10), 48 + (n % 10))
    IN IF b = 0 THEN <<>> ELSE IF b \in 1..Len(CHARS) THEN CHARS[b] ELSE <<115>> \o Digits(b)

(* FORMAT_TO_STRUCT: the format characters, and those that unpack to bytes *)
FORMAT_TO_STRUCT == {"a","b","B","g","h","H","i","I","f","n","N","Z","c","C","e","E","L","d","M","q","Q"}
BytesChars == {"a","n","N","Z"}
(* the characters whose entry has a multiplier *)
MulChars == {"c","C","e","E","L"}
(* MULT_TO_PREFIX, keyed by hundredths; the smaller keys are no hundredths *)
MULT_TO_PREFIX == (0 :> "") @@ (100 :> "") @@ (10 :> "d") @@ (1 :> "c")
CalcSize(format) == Len(format)

---------------------------------------------------------------------------
(* Times *)
NoTS == [e |-> -1, wk |-> 0, us |-> 0]
T0 == [e |-> 0, wk |-> 0, us |-> 0]
TAdd(a, b) == [e |-> a.e + b.e, wk |-> a.wk + b.wk, us |-> a.us + b.us]
TSub(a, b) == [e |-> a.e - b.e, wk |-> a.wk - b.wk, us |-> a.us - b.us]
TUs(n) == [e |-> 0, wk |-> 0, us |-> n]
TLess(a, b) == \/ a.e < b.e
               \/ a.e = b.e /\ a.wk < b.wk
               \/ a.e = b.e /\ a.wk = b.wk /\ a.us < b.us
TLeq(a, b) == a = b \/ TLess(a, b)

---------------------------------------------------------------------------
(* DFFormat *)
(* units = None and instance_field = None *)
NoUnits == <<"<None>">>
NoField == "<None>"
NoFmt == [type |-> -1, name |-> "", len |-> 0, format |-> <<>>, columns |-> <<>>,
          units |-> NoUnits, instance_field |-> NoField, instance_ofs |-> -1, instance_len |-> 0]

(* fmt.colhash: the last position of a column name; 0 when it is absent *)
ColHash(fmt, field) ==
    LET LastOf(I) == IF I = {} THEN 0 ELSE CHOOSE i \in I : \A j \in I : j <= i
    IN LastOf({i \in 1..Len(fmt.columns) : fmt.columns[i] = field})

(* DFFormat.set_instance_field, instance_idx counted from 0: [s, ok].
   struct.calcsize is given the format character itself: it raises for the
   characters struct does not know, and for L and n it is twice the width of
   the field, so that the instance data runs over the next field *)
set_instance_field(fmt, instance_idx) ==
    IF instance_idx >= Len(fmt.columns) \/ instance_idx >= Len(fmt.format)
       \/ fmt.format[instance_idx + 1] \in {"a","g","Z","C","E","M"}
    THEN Raise(fmt)
    ELSE Ok([fmt EXCEPT !.instance_field = fmt.columns[instance_idx + 1],
                        !.instance_ofs = instance_idx,
                        !.instance_len = IF fmt.format[instance_idx + 1] \in {"L","n"}
                                         THEN 2 ELSE 1])

(* DFFormat.__init__ raises for a format character outside FORMAT_TO_STRUCT *)
DFFormatRaises(format) == \E i \in 1..Len(format) : format[i] \notin FORMAT_TO_STRUCT

(* DFFormat.__init__ up to `if oldfmt is not None:`, with the units copied *)
DFFormatNew(type, name, flen, format, columns, oldfmt) ==
    [type |-> type, name |-> name, len |-> flen, format |-> format, columns |-> columns,
     units |-> oldfmt.units, instance_field |-> NoField, instance_ofs |-> -1,
     instance_len |-> 0]

(* `self.set_instance_field(self.colhash[oldfmt.instance_field])`: [s, ok] *)
DFFormatCopy(fmt, oldfmt) ==
    IF oldfmt.instance_field = NoField THEN Ok(fmt)
    ELSE IF ColHash(fmt, oldfmt.instance_field) = 0 THEN Raise(fmt)
    ELSE set_instance_field(fmt, ColHash(fmt, oldfmt.instance_field) - 1)

(* DFFormat.__init__ raises when it copies the instance field of oldfmt *)
DFFormatCopyRaises(format, columns, oldfmt) ==
    ~DFFormatCopy(DFFormatNew(0, "", 0, format, columns, oldfmt), oldfmt).ok

DFFormat(type, name, flen, format, columns, oldfmt) ==
    DFFormatCopy(DFFormatNew(type, name, flen, format, columns, oldfmt), oldfmt).s

(* DFFormat.set_unit_ids with the characters of the unit ids: [s, ok] *)
set_unit_ids(fmt, unit_ids, lookup) ==
    LET Units(f) ==
            [f EXCEPT !.units = [i \in 1..Len(f.columns) |->
                                    IF i <= Len(unit_ids) /\ unit_ids[i] \in DOMAIN lookup
                                    THEN lookup[unit_ids[i]] ELSE ""]]
        Then1(r) == IF r.ok THEN Ok(Units(r.s)) ELSE r
        Hash == {i \in 1..Len(unit_ids) : unit_ids[i] = 35}
    IN IF Hash = {} THEN Ok(Units(fmt))
       ELSE Then1(set_instance_field(fmt, (CHOOSE i \in Hash : \A j \in Hash : i <= j) - 1))

(* set_mult_ids that leaves the units as set_unit_ids made them *)
set_mult_ids_unscaled(fmt, mult_ids, lookup) == Ok(fmt)

(* DFFormat.set_mult_ids with the characters of the multiplier ids: [s, ok] *)
set_mult_ids(fmt, mult_ids, lookup) ==
    LET Skips(i) == i <= Len(fmt.format) /\ (fmt.format[i] \in MulChars \/ fmt.units[i] = "")
        Unit(i, unitmult) ==
            IF unitmult \in DOMAIN MULT_TO_PREFIX THEN MULT_TO_PREFIX[unitmult] \o fmt.units[i]
            ELSE ToString(unitmult) \o "e-02 " \o fmt.units[i]
    IN IF fmt.units = NoUnits THEN Raise(fmt)
       ELSE IF \E i \in 1..Len(fmt.units) :
                   i > Len(fmt.format) \/ (~Skips(i) /\ i > Len(mult_ids))
       THEN Raise(fmt)
       ELSE Ok([fmt EXCEPT !.units = [i \in 1..Len(fmt.units) |->
                   IF Skips(i) \/ mult_ids[i] \notin DOMAIN lookup THEN fmt.units[i]
                   ELSE Unit(i, lookup[mult_ids[i]])]])

---------------------------------------------------------------------------
(* DFMessage *)
NoMsg == [fmt |-> NoFmt, elements |-> <<>>, ustruct |-> <<>>, ofs |-> -1, ts |-> NoTS]
IsNone(m) == m.ofs = -1

(* a value: a string s or a number n; c is the format character of the
   column it was read from. The number of a column with a multiplier is n
   times the multiplier (n hundredths for c, C, e and E, n 1e-7 for L) *)
Val(k, s, n) == [st |-> "ok", k |-> k, s |-> s, n |-> n, c |-> ""]
Err(st) == [st |-> st, k |-> "", s |-> "", n |-> 0, c |-> ""]

(* DFMessage.__getattr__: "attr" is AttributeError, "index" IndexError,
   "value" ValueError *)
GetAttr(m, field) ==
    LET At(i) ==
            IF i = 0 THEN Err("attr")
            ELSE IF i > Len(m.fmt.format) \/ i > Len(m.elements) THEN Err("index")
            ELSE IF m.fmt.format[i] = "a" THEN Val("num", "", m.elements[i])
            ELSE IF m.fmt.format[i] \in {"n","N","Z"}
                 THEN Val("str", IF m.ustruct[i] \in BytesChars
                                 THEN StrOf(m.elements[i]) ELSE ToString(m.elements[i]), 0)
            ELSE IF m.ustruct[i] \in BytesChars THEN Err("value")
            ELSE Val("num", "", m.elements[i])
        From(i, v) == IF v.st = "ok" THEN [v EXCEPT !.c = m.fmt.format[i]] ELSE v
    IN From(ColHash(m.fmt, field), At(ColHash(m.fmt, field)))

(* the decimals of a multiplier: 2 for 0.01, 7 for 1.0e-7, 0 for None *)
Decimals(c) == IF c = "L" THEN 7 ELSE IF c \in {"c","C","e","E"} THEN 2 ELSE 0

(* DFMessage.get_msgbuf: [st, buf]; "none" when struct.pack raised, "raise"
   when an exception left the method *)
get_msgbuf(m) ==
    LET cols == m.fmt.columns
        Name(i) == IF cols[i] = "Mode" /\ \E j \in 1..Len(cols) : cols[j] = "ModeNum"
                   THEN "ModeNum" ELSE cols[i]
        Pow(d) == IF d = 7 THEN 10000000 ELSE IF d = 5 THEN 100000 ELSE IF d = 2 THEN 100 ELSE 1
        (* int(round(v)), a tie to the even number *)
        Round(n, q) == IF 2 * (n % q) < q \/ (2 * (n % q) = q /\ (n \div q) % 2 = 0)
                       THEN n \div q ELSE (n \div q) + 1
        (* `v /= mul; v = int(round(v))` for the column i *)
        Div(i, v) == IF Decimals(m.fmt.format[i]) >= Decimals(v.c)
                     THEN v.n * Pow(Decimals(m.fmt.format[i]) - Decimals(v.c))
                     ELSE Round(v.n, Pow(Decimals(v.c) - Decimals(m.fmt.format[i])))
        I == {i \in 1..Len(cols) : i <= Len(m.fmt.format)}
        V(i) == GetAttr(m, Name(i))
        IsBytes(v) == v.k = "str" \/ v.c = "a"
        IsFloat(v) == v.c \in {"g","f","d","c","C","e","E","L"}
        (* struct.pack takes bytes for a, n, N and Z, a whole number for the
           integers, any number for g, f and d; a string that no byte of a
           string field stands for is not packed *)
        Packs(i) ==
            IF V(i).k = "str" /\ ~\E b \in 0..255 : StrOf(b) = V(i).s THEN FALSE
            ELSE IF m.fmt.format[i] \in BytesChars THEN IsBytes(V(i))
            ELSE IF m.fmt.format[i] \in MulChars THEN TRUE
            ELSE ~IsBytes(V(i)) /\ (m.fmt.format[i] \in {"g","f","d"} \/ ~IsFloat(V(i)))
        Packed(i) ==
            IF V(i).k = "str" THEN CHOOSE b \in 0..255 : StrOf(b) = V(i).s
            ELSE IF m.fmt.format[i] \in MulChars THEN Div(i, V(i))
            ELSE V(i).n
    IN IF \E i \in I : V(i).st # "ok" \/ (m.fmt.format[i] \in MulChars /\ IsBytes(V(i)))
       THEN [st |-> "raise", buf |-> <<>>]
       ELSE IF I # 1..Len(m.fmt.format) \/ \E i \in I : ~Packs(i)
       THEN [st |-> "none", buf |-> <<>>]
       ELSE [st |-> "ok", buf |-> <<HEAD1, HEAD2, m.fmt.type>> \o [i \in 1..Len(m.fmt.format) |-> Packed(i)]]

HasAttr(m, field) == GetAttr(m, field).st # "attr"
InFieldnames(m, field) == ColHash(m.fmt, field) # 0
get_type(m) == m.fmt.name

---------------------------------------------------------------------------
(* The reader as a record, for the methods that are called from several places *)
Self == [data_map |-> data_map, data_len |-> data_len, offset |-> offset,
         remaining |-> remaining, prev_type |-> prev_type, formats |-> formats,
         unpackers |-> unpackers, offsets |-> offsets, counts |-> counts,
         name_to_id |-> name_to_id, type_nums |-> type_nums, indexes |-> indexes,
         messages |-> messages, flightmode |-> flightmode, mav_type |-> mav_type,
         params |-> params, clock |-> clock, timestamp |-> timestamp,
         flightmodes |-> flightmodes, unit_lookup |-> unit_lookup,
         mult_lookup |-> mult_lookup, zero_time_base |-> zero_time_base]

SetSelf(s) ==
    /\ data_map' = s.data_map   /\ data_len' = s.data_len
    /\ offset' = s.offset       /\ remaining' = s.remaining
    /\ prev_type' = s.prev_type /\ formats' = s.formats
    /\ unpackers' = s.unpackers /\ offsets' = s.offsets
    /\ counts' = s.counts       /\ name_to_id' = s.name_to_id
    /\ type_nums' = s.type_nums /\ indexes' = s.indexes
    /\ messages' = s.messages   /\ flightmode' = s.flightmode
    /\ mav_type' = s.mav_type   /\ params' = s.params
    /\ clock' = s.clock         /\ timestamp' = s.timestamp
    /\ flightmodes' = s.flightmodes
    /\ unit_lookup' = s.unit_lookup /\ mult_lookup' = s.mult_lookup
    /\ zero_time_base' = s.zero_time_base


---------------------------------------------------------------------------
(* The clocks.  A message rate is [c, d]: c messages in d microseconds; the
   rates below one per second all behave alike (set_message_timestamp takes
   50 for them) and are kept as SubOne. *)
SubOne == [c |-> 0, d |-> 1]
Rate50 == [c |-> 50, d |-> 1000000]

DFReaderClock(kind) ==
    [kind |-> kind, timebase |-> T0, timestamp |-> T0, first_stamp |-> -1,
     px4_timebase |-> T0, msg_rate |-> <<>>, counts_since_gps |-> <<>>]

gpsTimeToTime(week, msec) == [e |-> 1, wk |-> week, us |-> msec * 1000]

(* DFReaderClock_usec.find_time_base; raises when gps lacks a field *)
(* find_time_base taking the first TimeUS of the log from the GPS time *)
usec_find_time_base_first_stamp(c, gps, first_us_stamp) ==
    LET Base(w, ms) ==
            IF w.st # "ok" \/ ms.st # "ok" \/ w.k # "num" \/ ms.k # "num"
            THEN Raise(c)
            ELSE Ok([c EXCEPT !.timebase = TSub(gpsTimeToTime(w.n, ms.n), TUs(first_us_stamp)),
                              !.first_stamp = first_us_stamp])
    IN Base(GetAttr(gps, "GWk"), GetAttr(gps, "GMS"))

usec_find_time_base(c, gps, first_us_stamp) ==
    LET Base(w, ms, us) ==
            IF w.st # "ok" \/ ms.st # "ok" \/ us.st # "ok"
               \/ w.k # "num" \/ ms.k # "num" \/ us.k # "num"
            THEN Raise(c)
            ELSE Ok([c EXCEPT !.timebase = TSub(gpsTimeToTime(w.n, ms.n), TUs(us.n)),
                              !.first_stamp = first_us_stamp])
    IN Base(GetAttr(gps, "GWk"), GetAttr(gps, "GMS"), GetAttr(gps, "TimeUS"))

(* DFReaderClock_msec.find_time_base *)
msec_find_time_base(c, gps, first_ms_stamp) ==
    LET Base(w, ms, t) ==
            IF w.st # "ok" \/ ms.st # "ok" \/ t.st # "ok"
               \/ w.k # "num" \/ ms.k # "num" \/ t.k # "num"
            THEN Raise(c)
            ELSE Ok([c EXCEPT !.timebase = TSub(gpsTimeToTime(w.n, ms.n), TUs(t.n * 1000)),
                              !.first_stamp = first_ms_stamp])
    IN Base(GetAttr(gps, "Week"), GetAttr(gps, "TimeMS"), GetAttr(gps, "T"))

(* DFReaderClock_px4.set_px4_timebase and find_time_base *)
set_px4_timebase(c, time_msg) ==
    LET Base(v) == IF v.st # "ok" \/ v.k # "num" THEN Raise(c)
                   ELSE Ok([c EXCEPT !.px4_timebase = TUs(v.n)])
    IN Base(GetAttr(time_msg, "StartTime"))

px4_find_time_base(c, gps) ==
    LET Base(v) == IF v.st # "ok" \/ v.k # "num" THEN Raise(c)
                   ELSE Ok([c EXCEPT !.timebase = TSub(TUs(v.n), c.px4_timebase)])
    IN Base(GetAttr(gps, "GPSTime"))

(* rewind_event of each clock *)
rewind_event(c) ==
    IF c.kind = "usec"
    THEN [c EXCEPT !.timestamp = IF c.first_stamp # -1
                                 THEN TAdd(c.timebase, TUs(c.first_stamp)) ELSE c.timebase]
    ELSE IF c.kind = "msec"
    THEN [c EXCEPT !.timestamp = IF c.first_stamp # -1
                                 THEN TAdd(c.timebase, TUs(c.first_stamp * 1000)) ELSE c.timebase]
    ELSE IF c.kind = "gps_interpolated"
    THEN [c EXCEPT !.counts_since_gps = <<>>]
    ELSE c

(* getattr(m, field, None) of a number: [st, none, n] *)
GetNum(m, field) ==
    LET Num(v) == IF v.st = "attr" THEN [st |-> "ok", none |-> TRUE, n |-> 0]
                  ELSE IF v.st # "ok" \/ v.k # "num" THEN [st |-> "raise", none |-> FALSE, n |-> 0]
                  ELSE [st |-> "ok", none |-> FALSE, n |-> v.n]
    IN Num(GetAttr(m, field))

(* a time base that follows every fix, also one that is not later *)
adjust_time_base_unguarded(c, t) == [c EXCEPT !.timebase = t, !.counts_since_gps = <<>>]

(* gps_message_arrived, from `t = self._gpsTimeToTime(...)` on *)
adjust_time_base(c, t) ==
    LET deltat == TSub(t, c.timebase)
        D == (DOMAIN c.counts_since_gps) \cup (DOMAIN c.msg_rate) \cup {"IMU"}
        NewRate(ty) == IF deltat.e # 0 \/ deltat.wk # 0
                          \/ c.counts_since_gps[ty] * 1000000 < deltat.us
                       THEN SubOne
                       ELSE [c |-> c.counts_since_gps[ty], d |-> deltat.us]
        RateGreater(a, b) ==
            IF a = SubOne THEN FALSE ELSE IF b = SubOne THEN TRUE ELSE a.c * b.d > b.c * a.d
    IN IF TLeq(deltat, T0) THEN c
       ELSE [c EXCEPT
               !.msg_rate = [ty \in D |->
                    IF ty = "IMU" THEN Rate50
                    ELSE IF ty \notin DOMAIN c.counts_since_gps THEN c.msg_rate[ty]
                    ELSE IF ty \notin DOMAIN c.msg_rate THEN NewRate(ty)
                    ELSE IF RateGreater(NewRate(ty), c.msg_rate[ty]) THEN NewRate(ty)
                    ELSE c.msg_rate[ty]],
               !.timebase = t,
               !.counts_since_gps = <<>>]

(* DFReaderClock_gps_interpolated.gps_message_arrived *)
gps_adjust(c, week, tms) ==
    IF tms.st = "raise" \/ tms.none THEN Raise(c)
    ELSE Ok(adjust_time_base(c, gpsTimeToTime(week.n, tms.n)))

gps_fields(c, m, week1, tms1, week2, tms2, gpst, wk3) ==
    IF week1.st = "raise" \/ tms1.st = "raise" THEN Raise(c)
    ELSE IF ~week1.none THEN gps_adjust(c, week1, tms1)
    ELSE IF week2.st = "raise" \/ tms2.st = "raise" THEN Raise(c)
    ELSE IF ~week2.none THEN gps_adjust(c, week2, tms2)
    ELSE IF gpst.st = "raise" THEN Raise(c)
    ELSE IF ~gpst.none THEN Ok(c)
    ELSE IF wk3.st = "raise" \/ wk3.none THEN Raise(c)
    ELSE gps_adjust(c, wk3, GetNum(m, "TWk"))

gps_message_arrived(c, m) ==
    gps_fields(c, m, GetNum(m, "Week"), GetNum(m, "TimeMS"), GetNum(m, "GWk"), GetNum(m, "GMS"),
               GetNum(m, "GPSTime"), GetNum(m, "Wk"))

(* message_arrived of each clock; a call of gps_message_arrived that raised
   leaves the clock as it was when that call began *)
message_arrived(c, m) ==
    LET counted_arrived(c1) ==
            IF get_type(m) = "GPS" \/ get_type(m) = "GPS2"
            THEN IF gps_message_arrived(c1, m).ok THEN gps_message_arrived(c1, m) ELSE Raise(c1)
            ELSE Ok(c1)
    IN
    IF c.kind = "gps_interpolated"
    THEN counted_arrived([c EXCEPT !.counts_since_gps =
            Put(c.counts_since_gps, get_type(m), Get(c.counts_since_gps, get_type(m), 0) + 1)])
    ELSE IF c.kind = "px4"
    THEN IF get_type(m) = "TIME" /\ InFieldnames(m, "StartTime")
         THEN set_px4_timebase(c, m) ELSE Ok(c)
    ELSE Ok(c)

Then(r, F(_, _), m) == IF r.ok THEN F(r.s, m) ELSE r

(* every type taken to have a good TimeMS *)
type_has_good_TimeMS_always(type) == TRUE
(* the type names that start with ACC or GYR have none *)
type_has_good_TimeMS(type) ==
    type \notin {"ACC", "ACC1", "ACC2", "ACC3", "GYR", "GYR1", "GYR2", "GYR3"}

(* set_message_timestamp of each clock: [c, ts, ok]; ts is m._timestamp *)
set_message_timestamp(c, m) ==
    LET Stamp(ts) == [c |-> [c EXCEPT !.timestamp = ts], ts |-> ts, ok |-> TRUE]
        Fail == [c |-> c, ts |-> NoTS, ok |-> FALSE]
        (* self.timebase + v * scale *)
        At(v, scale) == IF v.st # "ok" \/ v.k # "num" THEN Fail
                        ELSE Stamp(TAdd(c.timebase, TUs(v.n * scale)))
        (* the TimeMS of a usec log never runs the clock backwards *)
        AtLeast(v) == IF v.st # "ok" \/ v.k # "num" THEN Fail
                      ELSE IF TLess(TAdd(c.timebase, TUs(v.n * 1000)), c.timestamp)
                           THEN Stamp(c.timestamp)
                           ELSE Stamp(TAdd(c.timebase, TUs(v.n * 1000)))
        Interpolated(rate, count) ==
            [c |-> c, ts |-> TAdd(c.timebase, TUs((count * rate.d) \div rate.c)), ok |-> TRUE]
        Rate(r0) == IF r0 = SubOne THEN Rate50 ELSE r0
    IN
    IF c.kind = "usec"
    THEN IF m.fmt.columns[1] = "TimeUS" THEN At(GetAttr(m, "TimeUS"), 1)
         ELSE IF type_has_good_TimeMS(get_type(m)) /\ m.fmt.columns[1] = "TimeMS"
         THEN AtLeast(GetAttr(m, "TimeMS"))
         ELSE Stamp(c.timestamp)
    ELSE IF c.kind = "msec"
    THEN IF m.fmt.columns[1] = "TimeMS" THEN At(GetAttr(m, "TimeMS"), 1000)
         ELSE IF get_type(m) \in {"GPS", "GPS2"} THEN At(GetAttr(m, "T"), 1000)
         ELSE Stamp(c.timestamp)
    ELSE IF c.kind = "px4"
    THEN [c |-> c, ts |-> TAdd(c.timebase, c.px4_timebase), ok |-> TRUE]
    ELSE Interpolated(Rate(Get(c.msg_rate, m.fmt.name, Rate50)),
                      Get(c.counts_since_gps, m.fmt.name, 0))

---------------------------------------------------------------------------
(* mavutil: the lookups the reader takes from the MAVLink tables *)
MsgVehicle(text) ==
    CASE text = "ArduCopter" -> "QUADROTOR"
      [] text = "ArduPlane"  -> "FIXED_WING"
      [] OTHER -> ""

build_types(bu) ==
    CASE bu = 1 -> "GROUND_ROVER" [] bu = 2 -> "QUADROTOR" [] bu = 3 -> "FIXED_WING"
      [] bu = 4 -> "ANTENNA_TRACKER" [] bu = 7 -> "SUBMARINE" [] bu = 13 -> "HELICOPTER"
      [] bu = 12 -> "AIRSHIP" [] OTHER -> ""

mode_mapping_bynumber(mavtype, num) ==
    CASE mavtype = "FIXED_WING" /\ num = 0 -> "MANUAL"
      [] mavtype = "FIXED_WING" /\ num = 1 -> "CIRCLE"
      [] mavtype = "QUADROTOR" /\ num = 0 -> "STABILIZE"
      [] mavtype = "QUADROTOR" /\ num = 1 -> "ACRO"
      [] OTHER -> "UNKNOWN"

mode_string_acm(num) == CASE num = 0 -> "STABILIZE" [] num = 1 -> "ACRO" [] OTHER -> "Mode(" \o ToString(num) \o ")"
mode_string_px4(num) == CASE num = 0 -> "MANUAL" [] num = 1 -> "ALTCTL" [] OTHER -> "UNKNOWN"


---------------------------------------------------------------------------
(* DFReader._set_time: the message stamped, and the reader *)
set_time(s, m) ==
    LET Stamped(r) ==
            IF r.ok THEN [s |-> [s EXCEPT !.clock = r.c], m |-> [m EXCEPT !.ts = r.ts], ok |-> TRUE]
            ELSE [s |-> s, m |-> [m EXCEPT !.ts = s.timestamp], ok |-> FALSE]
    IN IF Len(m.fmt.columns) > 0 /\ s.clock.kind # "none"
       THEN Stamped(set_message_timestamp(s.clock, m))
       ELSE [s |-> s, m |-> [m EXCEPT !.ts = s.timestamp], ok |-> TRUE]

(* DFReader._add_msg, statement by statement; ok = FALSE when one of them raised *)
add_msg_clock(s, m) ==
    LET Kept(r) == [s |-> [s EXCEPT !.clock = r.s], ok |-> r.ok]
    IN Kept(message_arrived(s.clock, m))

add_msg_MSG(s, m) ==
    LET Vehicle(v) ==
            IF v.st = "attr" THEN Ok(s)
            ELSE IF v.st # "ok" \/ v.k # "str" THEN Raise(s)
            ELSE IF MsgVehicle(v.s) # "" THEN Ok([s EXCEPT !.mav_type = MsgVehicle(v.s)])
            ELSE Ok(s)
    IN IF get_type(m) = "MSG" THEN Vehicle(GetAttr(m, "Message")) ELSE Ok(s)

add_msg_VER(s, m) ==
    LET Vehicle(v) ==
            IF v.st = "attr" THEN Ok(s)
            ELSE IF v.st # "ok" THEN Raise(s)
            ELSE IF v.k = "num" /\ build_types(v.n) # ""
                 THEN Ok([s EXCEPT !.mav_type = build_types(v.n)])
            ELSE Ok(s)
    IN IF get_type(m) = "VER" THEN Vehicle(GetAttr(m, "BU")) ELSE Ok(s)

add_msg_MODE(s, m) ==
    LET Upper(x) == CASE x = "ArduCopter" -> "ARDUCOPTER" [] x = "ArduPlane" -> "ARDUPLANE"
                         [] OTHER -> x
        ByNumber(n) ==
            IF n.st # "ok" THEN Raise(s)
            ELSE IF n.k = "num" THEN Ok([s EXCEPT !.flightmode = mode_mapping_bynumber(s.mav_type, n.n)])
            ELSE Ok([s EXCEPT !.flightmode = "UNKNOWN"])
        Mode(v) ==
            IF v.st = "index" \/ v.st = "value" THEN Raise(s)
            ELSE IF v.st = "ok" /\ v.k = "str" THEN Ok([s EXCEPT !.flightmode = Upper(v.s)])
            ELSE IF InFieldnames(m, "ModeNum") THEN ByNumber(GetAttr(m, "ModeNum"))
            ELSE IF v.st = "ok" THEN Ok([s EXCEPT !.flightmode = mode_string_acm(v.n)])
            ELSE Ok(s)
    IN IF get_type(m) # "MODE" THEN Ok(s) ELSE Mode(GetAttr(m, "Mode"))

add_msg_STAT(s, m) ==
    LET State(v) ==
            IF v.st # "ok" THEN Raise(s)
            ELSE Ok([s EXCEPT !.flightmode = IF v.k = "num" THEN mode_string_px4(v.n) ELSE "UNKNOWN"])
    IN IF get_type(m) = "STAT" /\ InFieldnames(m, "MainState")
       THEN State(GetAttr(m, "MainState")) ELSE Ok(s)

add_msg_PARM(s, m) ==
    LET Set(nm, v) ==
            IF v.st # "ok" THEN Raise(s)
            ELSE Ok([s EXCEPT !.params = Put(s.params, IF nm.k = "str" THEN nm.s ELSE ToString(nm.n), v)])
        Named(nm) ==
            IF nm.st = "index" \/ nm.st = "value" THEN Raise(s)
            ELSE IF nm.st = "attr" THEN Ok(s)
            ELSE Set(nm, GetAttr(m, "Value"))
    IN IF get_type(m) # "PARM" THEN Ok(s) ELSE Named(GetAttr(m, "Name"))

(* "%s[%s]" % (type, str(i)) *)
InstanceKey(m) ==
    LET Key(v) == get_type(m) \o "[" \o (IF v.k = "str" THEN v.s ELSE ToString(v.n)) \o "]"
    IN Key(GetAttr(m, m.fmt.instance_field))

(* `if m.fmt.instance_field is not None:` *)
add_msg_instance(s, m) ==
    IF m.fmt.instance_field = NoField THEN Ok(s)
    ELSE IF GetAttr(m, m.fmt.instance_field).st # "ok" THEN Raise(s)
    ELSE Ok([s EXCEPT !.messages = Put(s.messages, InstanceKey(m), m)])

(* [s, m]: the reader, the message (stamped when _set_time was reached); the
   entries of self.messages are the message itself, and show its stamp *)
add_msg_stamped(t) ==
    [s |-> [t.s EXCEPT !.messages =
                IF t.m.fmt.instance_field = NoField THEN Put(@, get_type(t.m), t.m)
                ELSE Put(Put(@, get_type(t.m), t.m), InstanceKey(t.m), t.m)],
     m |-> t.m]

add_msg(s0, m) ==
    LET r == Then(Then(Then(Then(Then(Then(
                add_msg_instance([s0 EXCEPT !.messages = Put(s0.messages, get_type(m), m)], m),
                add_msg_clock, m), add_msg_MSG, m), add_msg_VER, m), add_msg_MODE, m),
                add_msg_STAT, m), add_msg_PARM, m)
    IN IF r.ok THEN add_msg_stamped(set_time(r.s, m)) ELSE [s |-> r.s, m |-> m]

---------------------------------------------------------------------------
(* DFReader_binary._parse_next: [s, m, ok], m the message returned, NoMsg for
   None; ok = FALSE when an exception left the method *)
Byte(s, k) == IF k < Len(s.data_map) THEN s.data_map[k + 1] ELSE 0

(* `hdr[0] == self.HEAD1 and hdr[1] == self.HEAD2` at offset k *)
Signature(s, k) == Byte(s, k) = HEAD1 /\ Byte(s, k + 1) = HEAD2

(* the signature is looked for at the cursor only *)
Recognised_at_cursor(s) ==
    {k \in {s.offset} : k <= Min2(s.data_len - HDR_LEN, Len(s.data_map) - 1)
                        /\ Signature(s, k) /\ Byte(s, k + 2) \in DOMAIN s.formats}

(* the skip loop: the first offset from the cursor on that holds the signature
   and a type of the registry (the zero tail holds no signature) *)
Recognised(s) ==
    {k \in s.offset..Min2(s.data_len - HDR_LEN, Len(s.data_map) - 1) :
        Signature(s, k) /\ Byte(s, k + 2) \in DOMAIN s.formats}

(* the FMT branch: the registry after `self.formats[ftype] = mfmt`; ok = FALSE
   when the try block raised *)
parse_FMT(s, elements, ustruct) ==
    IF Len(elements) < 5 THEN Raise(s)
    ELSE IF \E i \in 3..5 : ustruct[i] \notin BytesChars THEN Raise(s)
    ELSE IF DFFormatRaises(FormatOf(elements[4])) THEN Raise(s)
    ELSE IF ustruct[1] \notin BytesChars
            /\ DFFormatCopyRaises(FormatOf(elements[4]), ColumnsOf(elements[5]),
                                  Get(s.formats, elements[1], NoFmt))
         THEN Raise(s)
    ELSE IF ustruct[1] \in BytesChars \/ ustruct[2] \in BytesChars THEN Ok(s)
    ELSE Ok([s EXCEPT !.formats = Put(s.formats, elements[1],
                DFFormat(elements[1], NameOf(elements[3]), elements[2],
                         FormatOf(elements[4]), ColumnsOf(elements[5]),
                         Get(s.formats, elements[1], NoFmt)))])

(* the FMTU branch and the call of _add_msg: [s, m, ok]. The elements are
   as unpacked: set_unit_ids is given a number or bytes, and raises *)
parse_FMTU(s, m) ==
    LET Added(r) == [s |-> r.s, m |-> r.m, ok |-> TRUE]
    IN IF m.fmt.name = "FMTU"
          /\ (Len(m.elements) < 3 \/ m.ustruct[1] \in BytesChars
              \/ m.elements[1] \in DOMAIN s.formats)
       THEN [s |-> s, m |-> NoMsg, ok |-> FALSE]
       ELSE Added(add_msg(s, m))

RECURSIVE parse_next(_)
parse_made(s2, k, fmt, body, ustruct, f) ==
    IF ~f.ok THEN parse_next(s2)
    ELSE parse_FMTU([f.s EXCEPT !.offset = k + fmt.len,
                                !.remaining = f.s.data_len - (k + fmt.len)],
                    [fmt |-> fmt, elements |-> body, ustruct |-> ustruct, ofs |-> k, ts |-> NoTS])

parse_decoded(s2, k, fmt, body, ustruct) ==
    parse_made(s2, k, fmt, body, ustruct,
               IF fmt.name = "FMT" THEN parse_FMT(s2, body, ustruct) ELSE Ok(s2))

parse_unpack(s2, k, msg_type, fmt) ==
    IF CalcSize(s2.unpackers[msg_type]) # Max2(0, fmt.len - HDR_LEN)
    THEN IF s2.remaining < TAIL_GARBAGE THEN [s |-> s2, m |-> NoMsg, ok |-> TRUE]
         ELSE parse_next(s2)
    ELSE parse_decoded(s2, k, fmt,
                       [i \in 1..Max2(0, fmt.len - HDR_LEN) |-> Byte(s2, k + HDR_LEN + i - 1)],
                       s2.unpackers[msg_type])

parse_header(s1, k, msg_type, fmt) ==
    IF s1.remaining < fmt.len - HDR_LEN THEN [s |-> s1, m |-> NoMsg, ok |-> TRUE]
    ELSE parse_unpack([s1 EXCEPT !.unpackers = IF msg_type \in DOMAIN @ THEN @
                                               ELSE Put(@, msg_type, fmt.format)],
                      k, msg_type, fmt)

parse_found(s, k, msg_type) ==
    parse_header([s EXCEPT !.offset = k + HDR_LEN, !.remaining = s.data_len - (k + HDR_LEN),
                           !.prev_type = msg_type],
                 k, msg_type, s.formats[msg_type])

parse_skipped(s, R) ==
    IF R = {}
    THEN [s |-> [s EXCEPT !.offset = Max2(s.offset, s.data_len - 2),
                          !.remaining = s.remaining - (Max2(s.offset, s.data_len - 2) - s.offset)],
          m |-> NoMsg, ok |-> TRUE]
    ELSE parse_found(s, SetMin(R), Byte(s, SetMin(R) + 2))

parse_next(s) == parse_skipped(s, Recognised(s))

(* DFReader.recv_msg *)
recv_msg(s) == parse_next(s)

---------------------------------------------------------------------------
(* None, for a list of numbers and for the list of flight modes *)
NoList == <<-1>>
NoModes == <<[mode |-> "<None>", t0 |-> NoTS, t1 |-> NoTS]>>

(* a rewind that leaves the cursor where it is *)
rewind_keeps_cursor(s, keep_messages) ==
    [s EXCEPT !.messages = IF keep_messages THEN s.messages ELSE <<>>,
              !.flightmode = IF s.flightmodes # NoModes /\ Len(s.flightmodes) > 0
                             THEN s.flightmodes[1].mode ELSE "UNKNOWN",
              !.clock = rewind_event(s.clock),
              !.type_nums = NoList,
              !.timestamp = T0]

(* DFReader._rewind and DFReader_binary._rewind *)
rewind_(s, keep_messages) ==
    [s EXCEPT !.messages = IF keep_messages THEN s.messages ELSE <<>>,
              !.flightmode = IF s.flightmodes # NoModes /\ Len(s.flightmodes) > 0
                             THEN s.flightmodes[1].mode ELSE "UNKNOWN",
              !.clock = rewind_event(s.clock),
              !.offset = 0,
              !.remaining = s.data_len,
              !.type_nums = NoList,
              !.timestamp = T0]

---------------------------------------------------------------------------
(* DFReader_binary.skip_to_type *)
KeyTypes == {"MODE", "MSG", "PARM", "STAT", "ORGN", "VER"}

(* `for t in type: if t in self.name_to_id: self.type_nums.append(...)` *)
TypeNums(s, type) ==
    LET names == SelectSeq(<<"FMT", "MODE", "PARM", "GPS", "MSG", "ATT", "STAT", "ORGN", "VER">>,
                           LAMBDA n : n \in type /\ n \in DOMAIN s.name_to_id)
    IN [i \in 1..Len(names) |-> s.name_to_id[names[i]]]

skip_to_type(s0, type, strict) ==
    LET Ofs(s, i) == s.offsets[s.type_nums[i]][s.indexes[i] + 1]
        Pick(s, Cand) ==
            IF Cand = {} THEN [s EXCEPT !.offset = s.data_len]
            ELSE LET Take(smallest_index) ==
                         [s EXCEPT !.indexes[smallest_index] = @ + 1,
                                   !.offset = Ofs(s, smallest_index)]
                 IN Take(CHOOSE i \in Cand : \A j \in Cand :
                            Ofs(s, i) < Ofs(s, j) \/ (Ofs(s, i) = Ofs(s, j) /\ i <= j))
        Search(s) ==
            Pick(s, {i \in 1..Len(s.type_nums) :
                        /\ s.indexes[i] < Get(s.counts, s.type_nums[i], 0)
                        /\ Ofs(s, i) < s.data_len})
        Listed(tn) == [s0 EXCEPT !.type_nums = tn, !.indexes = [i \in 1..Len(tn) |-> 0]]
    IN Search(IF s0.type_nums = NoList
              THEN Listed(TypeNums(s0, IF strict THEN type ELSE type \cup KeyTypes))
              ELSE s0)

(* DFReader.recv_match with a type set and no condition *)
RECURSIVE recv_match(_, _, _)
recv_match(s, type, strict) ==
    LET Got(r) == IF IsNone(r.m) THEN r
                  ELSE IF get_type(r.m) \notin type THEN recv_match(r.s, type, strict)
                  ELSE r
    IN Got(recv_msg(skip_to_type(s, type, strict)))

---------------------------------------------------------------------------
(* DFReader_binary.init_arrays: one iteration of its loop that finds a
   signature, with the iterations before it that skip a byte *)
Signatures(s, ofs) ==
    {k \in ofs..Min2(s.data_len - HDR_LEN - 1, Len(s.data_map) - 1) : Signature(s, k)}

(* the `if mtype == fmt_type:` block: [s, brk, ok] *)
index_FMT(s, k, mlen) ==
    LET Registered(mfmt) ==
            [s |-> [s EXCEPT !.formats = Put(s.formats, mfmt.type, mfmt),
                             !.name_to_id = Put(s.name_to_id, mfmt.name, mfmt.type)],
             brk |-> FALSE, ok |-> TRUE]
        Body(fmt, e) ==
            IF Len(e) + HDR_LEN < mlen THEN [s |-> s, brk |-> TRUE, ok |-> TRUE]
            ELSE IF CalcSize(fmt.format) # Len(e) THEN [s |-> s, brk |-> FALSE, ok |-> FALSE]
            ELSE IF Len(e) < 5 \/ (\E i \in 3..5 : fmt.format[i] \notin BytesChars)
                    \/ DFFormatRaises(FormatOf(e[4]))
                    \/ DFFormatCopyRaises(FormatOf(e[4]), ColumnsOf(e[5]),
                                          Get(s.formats, e[1], NoFmt))
                 THEN [s |-> s, brk |-> FALSE, ok |-> FALSE]
            ELSE Registered(DFFormat(e[1], NameOf(e[3]), e[2], FormatOf(e[4]), ColumnsOf(e[5]),
                                     Get(s.formats, e[1], NoFmt)))
    IN Body(s.formats[FMT_TYPE],
            [i \in 1..Max2(0, Min2(k + mlen, s.data_len) - (k + HDR_LEN)) |-> Byte(s, k + HDR_LEN + i - 1)])

(* float("%.7g" % x) of a number of hundredths *)
RECURSIVE Round7g(_)
Round7g(x) == IF x < 10000000 THEN x ELSE 10 * Round7g((x + 5) \div 10)

(* the `if mtype == unit_type:` and `if mtype == mult_type:` blocks: [s, brk, ok] *)
index_table(s, k, mlen, table) ==
    LET (* the double a byte of a `d` field stands for, in hundredths: a whole
           number, or 0.01 and 0.1 for the two highest bytes *)
        DoubleOf(b) == IF b = 255 THEN 1 ELSE IF b = 254 THEN 10 ELSE 100 * b
        Body(fmt, e) ==
            IF Len(e) + HDR_LEN < mlen THEN [s |-> s, brk |-> TRUE, ok |-> TRUE]
            ELSE IF CalcSize(fmt.format) # Len(e) \/ Len(e) < 3
                    \/ fmt.format[2] \in BytesChars
                    \/ (fmt.format[3] \in BytesChars) # (table = "UNIT")
                 THEN [s |-> s, brk |-> FALSE, ok |-> FALSE]
            ELSE IF table = "UNIT"
                 THEN [s |-> [s EXCEPT !.unit_lookup = Put(s.unit_lookup, e[2], StrOf(e[3]))],
                       brk |-> FALSE, ok |-> TRUE]
            ELSE [s |-> [s EXCEPT !.mult_lookup = Put(s.mult_lookup, e[2], Round7g(DoubleOf(e[3])))],
                  brk |-> FALSE, ok |-> TRUE]
    IN Body(s.formats[Byte(s, k + 2)],
            [i \in 1..Max2(0, Min2(k + mlen, s.data_len) - (k + HDR_LEN)) |-> Byte(s, k + HDR_LEN + i - 1)])

(* the `if mtype == fmtu_type:` block: [s, brk, ok] *)
index_FMTU(s, k, mlen) ==
    LET Stop(ok) == [s |-> s, brk |-> FALSE, ok |-> ok]
        Bound(ftype, r) ==
            [s |-> [s EXCEPT !.formats = Put(s.formats, ftype, r.s)], brk |-> FALSE, ok |-> r.ok]
        (* `if name in fmt.colhash: fmt2.set_..._ids(null_term(elements[...]), ...)` *)
        Ids(fmt, e, r, name, set_ids(_, _, _), lookup) ==
            IF ~r.ok \/ ColHash(fmt, name) = 0 THEN r
            ELSE IF ColHash(fmt, name) > Len(e) \/ fmt.format[ColHash(fmt, name)] \notin BytesChars
                 THEN Raise(r.s)
            ELSE set_ids(r.s, CharsOf(e[ColHash(fmt, name)]), lookup)
        Body(fmt, e) ==
            IF Len(e) + HDR_LEN < mlen THEN [s |-> s, brk |-> TRUE, ok |-> TRUE]
            ELSE IF CalcSize(fmt.format) # Len(e) \/ Len(e) < 2 \/ fmt.format[2] \in BytesChars
                 THEN Stop(FALSE)
            ELSE IF e[2] \notin DOMAIN s.formats THEN Stop(TRUE)
            ELSE Bound(e[2], Ids(fmt, e, Ids(fmt, e, Ok(s.formats[e[2]]), "UnitIds",
                                             set_unit_ids, s.unit_lookup),
                                 "MultIds", set_mult_ids, s.mult_lookup))
    IN Body(s.formats[Byte(s, k + 2)],
            [i \in 1..Max2(0, Min2(k + mlen, s.data_len) - (k + HDR_LEN)) |-> Byte(s, k + HDR_LEN + i - 1)])

(* fmtu_type, unit_type and mult_type after the FMT block *)
index_types(f, x, k, mtype) ==
    LET Named(fmt) ==
            [fmtu_type |-> IF fmt.name = "FMTU" THEN fmt.type ELSE x.fmtu_type,
             unit_type |-> IF fmt.name = "UNIT" THEN fmt.type ELSE x.unit_type,
             mult_type |-> IF fmt.name = "MULT" THEN fmt.type ELSE x.mult_type]
    IN IF mtype = FMT_TYPE /\ f.ok /\ ~f.brk
       THEN Named(f.s.formats[Byte(f.s, k + HDR_LEN)])
       ELSE [fmtu_type |-> x.fmtu_type, unit_type |-> x.unit_type, mult_type |-> x.mult_type]

(* [s, ix, brk, ok]: brk = the loop was left by `break`, ok = FALSE an exception;
   `ofs += mlen`, then the progress callback with new_pct where it is not pct *)
index_done(f, x, k, mlen, lengths, types) ==
    LET new_pct == (100 * (k + mlen)) \div f.s.data_len
        left == f.brk \/ ~f.ok
    IN [s |-> f.s,
        ix |-> [ofs |-> IF left THEN k ELSE k + mlen, lengths |-> lengths,
                fmtu_type |-> types.fmtu_type, unit_type |-> types.unit_type,
                mult_type |-> types.mult_type, type_instances |-> x.type_instances,
                pct |-> IF left THEN x.pct ELSE new_pct,
                progress |-> IF left \/ new_pct = x.pct THEN x.progress
                             ELSE Append(x.progress, new_pct)],
        brk |-> f.brk, ok |-> f.ok]

(* the FMTU block, then the UNIT block, then the MULT block, then `ofs += mlen` *)
index_typed(f, x, k, mtype, mlen, lengths) ==
    LET types == index_types(f, x, k, mtype)
        Block(g, t, h) == IF g.ok /\ ~g.brk /\ mtype = t THEN h ELSE g
        FMTUed == Block(f, types.fmtu_type, index_FMTU(f.s, k, mlen))
        United == Block(FMTUed, types.unit_type, index_table(FMTUed.s, k, mlen, "UNIT"))
        Multed == Block(United, types.mult_type, index_table(United.s, k, mlen, "MULT"))
    IN index_done(Multed, x, k, mlen, lengths, types)

(* `lengths[mtype] = fmt.len`, `counts[mtype] += 1` and the blocks that follow *)
index_measured(s2, x, k, mtype) ==
    LET index_counted(s3, lengths) ==
            index_typed(IF mtype = FMT_TYPE THEN index_FMT(s3, k, lengths[mtype])
                        ELSE [s |-> s3, brk |-> FALSE, ok |-> TRUE],
                        x, k, mtype, lengths[mtype], lengths)
    IN index_counted([s2 EXCEPT !.counts = Put(s2.counts, mtype, Get(s2.counts, mtype, 0) + 1)],
                     IF mtype \notin DOMAIN x.lengths
                     THEN Put(x.lengths, mtype, s2.formats[mtype].len) ELSE x.lengths)

(* data_map[ofs+3+fmt.instance_ofs:ofs+3+fmt.instance_ofs+fmt.instance_len] *)
IData(s, k, fmt) ==
    [i \in 1..Max2(0, Min2(k + HDR_LEN + fmt.instance_ofs + fmt.instance_len, s.data_len)
                      - (k + HDR_LEN + fmt.instance_ofs))
        |-> Byte(s, k + HDR_LEN + fmt.instance_ofs + i - 1)]

index_listed(s1, x, k, mtype) ==
    LET Parsed(p, x2) == IF p.ok THEN index_measured(p.s, x2, k, mtype)
                         ELSE [s |-> p.s, ix |-> x2, brk |-> FALSE, ok |-> FALSE]
        Seen(idata) ==
            Put(x.type_instances, mtype, Get(x.type_instances, mtype, {}) \cup {idata})
    IN IF mtype \notin DOMAIN x.lengths
       THEN IF mtype \notin DOMAIN s1.formats
            THEN [s |-> s1, ix |-> x, brk |-> TRUE, ok |-> TRUE]
            ELSE Parsed(parse_next([s1 EXCEPT !.offset = k]), x)
       ELSE IF s1.formats[mtype].instance_field # NoField
               /\ IData(s1, k, s1.formats[mtype]) \notin Get(x.type_instances, mtype, {})
       THEN Parsed(parse_next([s1 EXCEPT !.offset = k]),
                   [x EXCEPT !.type_instances = Seen(IData(s1, k, s1.formats[mtype]))])
       ELSE index_measured(s1, x, k, mtype)

index_record(s0, x, k) ==
    index_listed([s0 EXCEPT !.offsets = Put(s0.offsets, Byte(s0, k + 2),
                                            Append(Get(s0.offsets, Byte(s0, k + 2), <<>>), k))],
                 x, k, Byte(s0, k + 2))

(* the end of init_arrays (`self.offset = 0`) and DFReader.init_clock up to
   its first loop *)
index_end(s) ==
    [rewind_([s EXCEPT !.offset = 0], TRUE) EXCEPT !.clock = DFReaderClock("gps_interpolated")]

(* DFReader_binary.init_arrays_fast with offs for the lists that
   dfindexer.build_offsets returns: [s, ok], ok = FALSE an exception *)
init_arrays_fast(s0, offs) ==
    LET fmt_fmt == s0.formats[FMT_TYPE]
        Of(t) == Get(offs, t, <<>>)
        (* `for ofs in offsets[fmt_type]:` with the layout of fmt_fmt *)
        FMT(r, k) ==
            LET f == index_FMT([r.s EXCEPT !.formats = Put(@, FMT_TYPE, fmt_fmt)], k, fmt_fmt.len)
            IN IF ~f.ok \/ f.brk THEN Raise(r.s)
               ELSE IF Byte(r.s, k + HDR_LEN) = FMT_TYPE THEN Ok(f.s)
               ELSE Ok([f.s EXCEPT !.formats = Put(@, FMT_TYPE, r.s.formats[FMT_TYPE])])
        RECURSIVE FMTs(_, _)
        FMTs(r, n) == IF n > Len(Of(FMT_TYPE)) \/ ~r.ok THEN r
                      ELSE FMTs(FMT(r, Of(FMT_TYPE)[n]), n + 1)
        (* the loops over the UNIT, the MULT and the FMTU records *)
        Record(s, k, mlen, name) ==
            IF name = "FMTU" THEN index_FMTU(s, k, mlen) ELSE index_table(s, k, mlen, name)
        RECURSIVE Records(_, _, _, _, _)
        Records(f, q, mlen, name, n) ==
            IF n > Len(q) \/ ~f.ok \/ f.brk THEN [s |-> f.s, ok |-> f.ok]
            ELSE Records(Record(f.s, q[n], mlen, name), q, mlen, name, n + 1)
        Table(r, name) ==
            IF ~r.ok \/ name \notin DOMAIN r.s.name_to_id THEN r
            ELSE Records([s |-> r.s, brk |-> FALSE, ok |-> TRUE], Of(r.s.name_to_id[name]),
                         r.s.formats[r.s.name_to_id[name]].len, name, 1)
        (* the loop that builds the messages dictionary: [s, seen, ok] *)
        NMSG(fmt, num_offsets) ==
            IF fmt.instance_field = NoField THEN Min2(1, num_offsets)
            ELSE IF fmt.instance_len = 1 THEN Min2(num_offsets, 100) ELSE num_offsets
        Parse(r, ofs, seen) ==
            LET p == parse_next([r.s EXCEPT !.offset = ofs])
            IN [s |-> p.s, seen |-> seen, ok |-> p.ok]
        Named(r, fmt, ofs) ==
            IF fmt.name \notin DOMAIN r.s.messages THEN Parse(r, ofs, r.seen) ELSE r
        Instance(r, fmt, ofs) ==
            IF ~r.ok \/ fmt.instance_field = NoField \/ IData(r.s, ofs, fmt) \in r.seen THEN r
            ELSE Parse(r, ofs, r.seen \cup {IData(r.s, ofs, fmt)})
        RECURSIVE Msgs(_, _, _, _)
        Msgs(r, fmt, q, n) ==
            IF n > NMSG(fmt, Len(q)) \/ ~r.ok THEN r
            ELSE Msgs(Instance(Named(r, fmt, q[n]), fmt, q[n]), fmt, q, n + 1)
        RECURSIVE Types(_, _)
        (* `for mtype in range(256): if mtype not in self.formats: continue` *)
        Types(r, mtype) ==
            LET rest == {i \in DOMAIN r.s.formats : i >= mtype /\ i <= 255}
            IN IF rest = {} \/ ~r.ok THEN [s |-> r.s, ok |-> r.ok]
               ELSE Types(Msgs([r EXCEPT !.seen = {}], r.s.formats[SetMin(rest)],
                               Of(SetMin(rest)), 1),
                          SetMin(rest) + 1)
        Seeded(r) == Types([s |-> r.s, seen |-> {}, ok |-> r.ok], 0)
        Done(r) ==
            IF ~r.ok THEN r
            ELSE Ok([r.s EXCEPT !.offsets = offs,
                                !.counts = [i \in 0..255 |-> Len(Of(i))],
                                !.offset = 0])
    IN Done(Seeded(Table(Table(Table(FMTs(Ok([s0 EXCEPT !.name_to_id = <<>>]), 1),
                                     "UNIT"), "MULT"), "FMTU")))

---------------------------------------------------------------------------
(* DFReader.init_clock *)
init_clock_usec(s) == [s EXCEPT !.clock = DFReaderClock("usec")]
init_clock_msec(s) == [s EXCEPT !.clock = DFReaderClock("msec")]

(* getattr(m, field, 0) != 0 *)
NonZero(m, field) ==
    LET Set(v) == v.st = "ok" /\ ~(v.k = "num" /\ v.n = 0) IN Set(GetAttr(m, field))
Raises(m, field) == GetAttr(m, field).st \in {"index", "value"}

(* one iteration of the first loop: [s, ic, brk, ok] *)
clock_scan1(s0, c) ==
    LET Modern(s, m, us, wk, ms) ==
            IF us.st = "raise" \/ wk.st = "raise" \/ ms.st = "raise"
            THEN [s |-> s, ic |-> c, brk |-> FALSE, ok |-> FALSE]
            ELSE IF us.none \/ wk.none \/ ms.none THEN [s |-> s, ic |-> c, brk |-> TRUE, ok |-> TRUE]
            ELSE [s |-> s, ic |-> [c EXCEPT !.first_modern_gps_message = m],
                  brk |-> wk.n > 0, ok |-> TRUE]
        Got(r) ==
            IF ~r.ok THEN [s |-> r.s, ic |-> c, brk |-> FALSE, ok |-> FALSE]
            ELSE IF IsNone(r.m) THEN [s |-> r.s, ic |-> c, brk |-> TRUE, ok |-> TRUE]
            ELSE IF get_type(r.m) = "PARM" THEN [s |-> r.s, ic |-> c, brk |-> FALSE, ok |-> TRUE]
            ELSE Modern(r.s, r.m, GetNum(r.m, "TimeUS"), GetNum(r.m, "GWk"), GetNum(r.m, "GMS"))
    IN Got(recv_match(s0, {"GPS", "PARM"}, TRUE))

(* a clock installed with its time base: [s, ok];
   `if not self._zero_time_base: self.clock.find_time_base(...)` *)
TimeBased(s, kind, r) ==
    IF s.zero_time_base THEN Ok([s EXCEPT !.clock = DFReaderClock(kind)])
    ELSE IF r.ok THEN Ok([s EXCEPT !.clock = r.s]) ELSE Raise(s)

(* the GPS branch of the second loop: [s, ic, brk, ok] *)
clock_scan2_gps(s, c, m) ==
    LET Found(u, c9) == [s |-> u.s, ic |-> [c9 EXCEPT !.have_good_clock = u.ok],
                         brk |-> TRUE, ok |-> u.ok]
        Msec(tv, fm) ==
            Found(IF tv.st = "raise" THEN Raise(s)
                  ELSE TimeBased(s, "msec", msec_find_time_base(DFReaderClock("msec"), m, fm)),
                  [c EXCEPT !.first_ms_stamp = fm])
        Interp(c1, g1, week) ==
            IF ~week THEN [s |-> s, ic |-> c1, brk |-> FALSE, ok |-> TRUE]
            ELSE IF IsNone(g1)
                 THEN [s |-> s, ic |-> [c1 EXCEPT !.gps_interp_msg_gps1 = m], brk |-> FALSE, ok |-> TRUE]
            ELSE IF GetAttr(g1, "TimeMS").st # "ok" \/ GetAttr(m, "TimeMS").st # "ok"
                 THEN [s |-> s, ic |-> c1, brk |-> FALSE, ok |-> FALSE]
            ELSE IF GetAttr(g1, "TimeMS") # GetAttr(m, "TimeMS") \/ GetAttr(g1, "Week") # GetAttr(m, "Week")
                 THEN [s |-> s, ic |-> [c1 EXCEPT !.have_good_clock = TRUE], brk |-> TRUE, ok |-> TRUE]
            ELSE [s |-> s, ic |-> [c1 EXCEPT !.gps_interp_msg_gps1 = m], brk |-> FALSE, ok |-> TRUE]
    IN
    IF Raises(m, "TimeUS") \/ Raises(m, "GWk") THEN [s |-> s, ic |-> c, brk |-> FALSE, ok |-> FALSE]
    ELSE IF NonZero(m, "TimeUS") /\ NonZero(m, "GWk")
    THEN Found(TimeBased(s, "usec", usec_find_time_base(DFReaderClock("usec"), m, c.first_us_stamp)), c)
    ELSE IF Raises(m, "T") \/ Raises(m, "Week") THEN [s |-> s, ic |-> c, brk |-> FALSE, ok |-> FALSE]
    ELSE IF NonZero(m, "T") /\ NonZero(m, "Week")
    THEN Msec(GetNum(m, "T"),
              IF c.first_ms_stamp = -1 THEN GetNum(m, "T").n ELSE c.first_ms_stamp)
    ELSE IF Raises(m, "GPSTime") THEN [s |-> s, ic |-> c, brk |-> FALSE, ok |-> FALSE]
    ELSE Interp(IF NonZero(m, "GPSTime") THEN [c EXCEPT !.px4_msg_gps = m] ELSE c,
                c.gps_interp_msg_gps1, NonZero(m, "Week"))

(* DFReader.init_clock_px4: [s, ok] *)
init_clock_px4(s, px4_msg_time, px4_msg_gps) ==
    LET Based(a, b) == IF b.ok THEN Ok([s EXCEPT !.clock = b.s]) ELSE Raise([s EXCEPT !.clock = a.s])
        Timed(a) == IF ~a.ok THEN Raise([s EXCEPT !.clock = a.s])
                    ELSE Based(a, px4_find_time_base(a.s, px4_msg_gps))
    IN IF s.zero_time_base THEN Ok([s EXCEPT !.clock = DFReaderClock("px4")])
       ELSE Timed(set_px4_timebase(DFReaderClock("px4"), px4_msg_time))

(* one iteration of the second loop: [s, ic, brk, ok] *)
clock_scan2(s0, c0) ==
    LET fmg == c0.first_modern_gps_message
        Found(u, c9) == [s |-> u.s, ic |-> [c9 EXCEPT !.have_good_clock = u.ok],
                         brk |-> TRUE, ok |-> u.ok]
        (* `if px4_msg_time is not None and px4_msg_gps is not None:` *)
        Px4(g) ==
            IF g.brk \/ ~g.ok THEN g
            ELSE IF ~IsNone(g.ic.px4_msg_time) /\ ~IsNone(g.ic.px4_msg_gps)
                 THEN Found(init_clock_px4(g.s, g.ic.px4_msg_time, g.ic.px4_msg_gps), g.ic)
            ELSE g
        (* the GPS and TIME branches *)
        Typed(s, m, c2) ==
            Px4(IF get_type(m) = "GPS" \/ get_type(m) = "GPS2" THEN clock_scan2_gps(s, c2, m)
                ELSE IF get_type(m) = "TIME"
                THEN IF Raises(m, "StartTime") THEN [s |-> s, ic |-> c2, brk |-> FALSE, ok |-> FALSE]
                     ELSE IF HasAttr(m, "StartTime")
                     THEN [s |-> s, ic |-> [c2 EXCEPT !.px4_msg_time = m], brk |-> FALSE, ok |-> TRUE]
                     ELSE [s |-> s, ic |-> c2, brk |-> FALSE, ok |-> TRUE]
                ELSE [s |-> s, ic |-> c2, brk |-> FALSE, ok |-> TRUE])
        (* `if first_ms_stamp is None and (type != 'GPS' and type != 'GPS2'):` *)
        Msec(s, m, c1, setms, tms) ==
            IF setms /\ tms.st = "raise" THEN [s |-> s, ic |-> c1, brk |-> FALSE, ok |-> FALSE]
            ELSE Typed(s, m, IF setms /\ ~tms.none THEN [c1 EXCEPT !.first_ms_stamp = tms.n] ELSE c1)
        (* `if first_us_stamp is None:` *)
        Usec(s, m, us) ==
            IF c0.first_us_stamp = -1 /\ us.st = "raise"
            THEN [s |-> s, ic |-> c0, brk |-> FALSE, ok |-> FALSE]
            ELSE IF c0.first_us_stamp = -1 /\ ~us.none /\ ~IsNone(fmg)
            THEN IF GetNum(fmg, "GWk").n <= 0
                 THEN [s |-> s, ic |-> [c0 EXCEPT !.first_us_stamp = us.n], brk |-> TRUE, ok |-> TRUE]
                 ELSE Found(TimeBased(s, "usec", usec_find_time_base(DFReaderClock("usec"), fmg, us.n)),
                            [c0 EXCEPT !.first_us_stamp = us.n])
            ELSE Msec(s, m,
                      IF c0.first_us_stamp = -1 /\ ~us.none THEN [c0 EXCEPT !.first_us_stamp = us.n] ELSE c0,
                      c0.first_ms_stamp = -1 /\ get_type(m) # "GPS" /\ get_type(m) # "GPS2",
                      GetNum(m, "TimeMS"))
        Got(r) == IF ~r.ok THEN [s |-> r.s, ic |-> c0, brk |-> FALSE, ok |-> FALSE]
                  ELSE IF IsNone(r.m) THEN [s |-> r.s, ic |-> c0, brk |-> TRUE, ok |-> TRUE]
                  ELSE Usec(r.s, r.m, GetNum(r.m, "TimeUS"))
    IN Got(recv_msg(s0))

(* the end of init_clock with the two fallbacks exchanged *)
init_clock_end_msec_first(s, c) ==
    LET s1 == IF c.have_good_clock THEN s
              ELSE IF c.first_ms_stamp # -1 THEN init_clock_msec(s)
              ELSE IF c.first_us_stamp # -1 THEN init_clock_usec(s)
              ELSE s
    IN rewind_([rewind_(s1, TRUE) EXCEPT !.prev_type = -1], TRUE)

(* after the second loop, and the end of DFReader_binary.__init__ *)
init_clock_end(s, c) ==
    LET s1 == IF c.have_good_clock THEN s
              ELSE IF c.first_us_stamp # -1 THEN init_clock_usec(s)
              ELSE IF c.first_ms_stamp # -1 THEN init_clock_msec(s)
              ELSE s
    IN rewind_([rewind_(s1, TRUE) EXCEPT !.prev_type = -1], TRUE)

---------------------------------------------------------------------------
(* DFReader_binary.last_timestamp: [s, ts, ok]; ok = FALSE when
   `return m._timestamp` raises *)
LastOffsets(s) == {Last(s.offsets[i]) : i \in {j \in DOMAIN s.offsets : Len(s.offsets[j]) > 0}}
SetMax0(S) == IF S = {} THEN 0 ELSE CHOOSE x \in S : \A y \in S : y <= x
highest_offset(s) == SetMax0({o \in LastOffsets(s) : o > 0})

last_timestamp(s) ==
    LET last_stamp(r) == [s |-> r.s, ts |-> r.m.ts, ok |-> ~IsNone(r.m) /\ r.m.ts # NoTS]
        r1 == recv_msg([s EXCEPT !.offset = highest_offset(s)])
        second_highest_offset == SetMax0({o \in LastOffsets(s) : o > 0 /\ o # highest_offset(s)})
    IN IF r1.ok /\ IsNone(r1.m)
       THEN last_stamp(recv_msg([r1.s EXCEPT !.offset = second_highest_offset]))
       ELSE last_stamp(r1)

(* DFReader.flightmode_list: the scan loop, [s, list, tstamp, ok] *)
RECURSIVE flightmode_scan(_, _, _, _)
flightmode_scan(s, list, fmode, tstamp) ==
    LET Got(r) ==
            IF ~r.ok THEN [s |-> r.s, list |-> list, tstamp |-> tstamp, ok |-> FALSE]
            ELSE IF IsNone(r.m) THEN [s |-> r.s, list |-> list, tstamp |-> tstamp, ok |-> TRUE]
            ELSE IF r.m.ts = NoTS THEN [s |-> r.s, list |-> list, tstamp |-> tstamp, ok |-> FALSE]
            ELSE IF r.s.flightmode = fmode THEN flightmode_scan(r.s, list, fmode, r.m.ts)
            ELSE flightmode_scan(r.s,
                    Append(IF Len(list) > 0 THEN [list EXCEPT ![Len(list)].t1 = r.m.ts] ELSE list,
                           [mode |-> r.s.flightmode, t0 |-> r.m.ts, t1 |-> NoTS]),
                    r.s.flightmode, r.m.ts)
    IN Got(recv_match(s, {"MODE", "PARM"}, TRUE))

(* a list whose last entry ends at the stamp of the last MODE or PARM record *)
flightmode_closed_at_scan(list, lt) ==
    IF ~lt.ok THEN Raise(lt.s)
    ELSE Ok(rewind_([lt.s EXCEPT !.flightmodes = [list EXCEPT ![Len(list)].t1 = list[Len(list)].t0]], FALSE))

(* [s, ok]: s.flightmodes is the list returned when ok *)
flightmode_closed(list, lt) ==
    IF ~lt.ok THEN Raise(lt.s)
    ELSE Ok(rewind_([lt.s EXCEPT !.flightmodes = [list EXCEPT ![Len(list)].t1 = lt.ts]], FALSE))

flightmode_scanned(sc) ==
    IF ~sc.ok THEN Raise([sc.s EXCEPT !.flightmodes = sc.list])
    ELSE IF sc.tstamp = NoTS THEN Ok(rewind_([sc.s EXCEPT !.flightmodes = sc.list], FALSE))
    ELSE flightmode_closed(sc.list, last_timestamp([sc.s EXCEPT !.flightmodes = sc.list]))

flightmode_list(s0) ==
    IF s0.flightmodes # NoModes THEN Ok(rewind_(s0, FALSE))
    ELSE flightmode_scanned(flightmode_scan([rewind_(s0, FALSE) EXCEPT !.flightmodes = <<>>],
                                            <<>>, "<None>", NoTS))

---------------------------------------------------------------------------
(* The logs the reader is opened on: a preamble of FMT records followed by at
   most MaxChunks pieces (records, stray bytes, signatures of unknown types,
   FMT records that redefine a type), with or without a zero tail *)
Hdr(t) == <<HEAD1, HEAD2, t>>
FmtRec(t, len, name, fmt, cols) == Hdr(FMT_TYPE) \o <<t, len, name, fmt, cols>>
Rec(t, payload) == Hdr(t) \o payload

FMT_ATT   == FmtRec(1, 4, 6, 5, 5)
FMT_MODE  == FmtRec(2, 5, 2, 2, 2)
FMT_GPS   == FmtRec(4, 6, 4, 4, 4)

(* MODE records at stamps 0, 10, 20 with modes A, A, B *)
ModesLog == FMT_MODE \o Rec(2, <<0, 1>>) \o Rec(2, <<10, 1>>) \o Rec(2, <<20, 2>>)

RECURSIVE Bodies(_, _)
Bodies(P, n) == IF n = 0 THEN {<<>>}
                ELSE Bodies(P, n - 1) \cup {b \o p : b \in Bodies(P, n - 1), p \in P}

(* a family of logs: a preamble of FMT records, then up to MaxChunks pieces *)
Family(pre, pieces) == {pre \o b : b \in Bodies(pieces, MaxChunks)}

(* the pieces of the logs of attitude and mode records; the last redefines MODE *)
PiecesA == { Rec(1, <<1, 0>>), Rec(1, <<2>>), Rec(2, <<3, 1>>), Rec(2, <<1, 2>>),
             <<0>>, Hdr(9), Hdr(1), FmtRec(2, 5, 2, 6, 6) }

Streams ==
    (* ATT and MODE; ATT declared one byte longer than its format *)
    Family(FMT_ATT \o FMT_MODE, PiecesA)
    \cup Family(FmtRec(1, 5, 6, 5, 5) \o FMT_MODE, PiecesA)
    (* GPS fixes and records of a type declared with no payload *)
    \cup Family(FMT_GPS \o FmtRec(3, 0, 5, 0, 0), { Rec(4, <<1, 1, 0>>), Hdr(3) })
    (* UNIT and MULT records *)
    \cup Family(FmtRec(5, 6, 7, 7, 7) \o FmtRec(6, 6, 8, 8, 8),
                { Rec(5, <<1, 7, 1>>), Rec(6, <<2, 7, 3>>) })
    \cup {ModesLog}
Tails == {0, TAIL_GARBAGE}

(* damaged logs: a FMT header cut short, a type no FMT declares, a FMT whose
   format has a character outside FORMAT_TO_STRUCT, and logs without any FMT *)
PiecesE == { Hdr(FMT_TYPE), Rec(1, <<2>>), Hdr(9), FmtRec(7, 4, 6, 15, 5), <<0>> }

(* logs with units and instances. ATT has the columns X, Y and the format iI;
   FMTU has TimeUS, FmtType, UnitIds, MultIds *)
FMT_XY == FmtRec(1, 5, 6, 11, 17)
FMT_FMTU == FmtRec(7, 7, 13, 10, 16)
UnitStreams ==
    (* UNIT d -> deg and # -> A, MULT - -> 0.01, FMTU binding ATT to "d#" and "--" *)
    Family(FMT_XY \o FmtRec(5, 6, 7, 7, 7) \o FmtRec(6, 6, 8, 8, 8) \o FMT_FMTU,
           { Rec(5, <<0, 100, 5>>), Rec(5, <<0, 35, 1>>), Rec(6, <<0, 45, 255>>),
             Rec(7, <<0, 1, 6, 7>>) })
    (* the UNIT, MULT and FMTU records in every order *)
    \cup { FMT_XY \o FmtRec(5, 6, 7, 7, 7) \o FmtRec(6, 6, 8, 8, 8) \o FMT_FMTU \o a \o b \o c :
             a, b, c \in { Rec(5, <<0, 100, 5>>), Rec(6, <<0, 45, 255>>), Rec(7, <<0, 1, 6, 7>>) } }
    (* records of ATT with the instances 2 and 3; FMTU records binding ATT, the
       second with a TimeUS that is a type id; ATT redefined with the columns
       Y, X and with the column X alone *)
    \cup Family(FMT_XY \o FMT_FMTU,
                { Rec(1, <<1, 2>>), Rec(1, <<1, 3>>), Rec(7, <<0, 1, 6, 7>>),
                  Rec(7, <<1, 1, 6, 7>>), FmtRec(1, 5, 6, 11, 19), FmtRec(1, 5, 6, 11, 20) })
    (* a GPS fix ahead of the records of ATT and of the FMTU record *)
    \cup Family(FMT_XY \o FMT_FMTU \o FMT_GPS \o Rec(4, <<1, 1, 0>>),
                { Rec(1, <<1, 2>>), Rec(1, <<1, 3>>), Rec(7, <<0, 1, 6, 7>>) })
    (* a record of type 3 ahead of the FMT record that defines type 3 *)
    \cup Family(FMT_XY \o Rec(3, <<1, 2>>) \o FmtRec(3, 5, 16, 11, 17), { Rec(3, <<1, 3>>) })
    (* the same behind a GPS fix, where the clock scan of open ends *)
    \cup { FMT_GPS \o Rec(4, <<1, 1, 0>>) \o Rec(3, <<1, 2>>) \o FmtRec(3, 5, 16, 11, 17) }

(* logs of records to write back: n1 with the columns Mode, ModeNum, n2 with
   a column in hundredths, n3 with a string, n4 with the column X twice *)
PackStreams ==
    Family(FmtRec(1, 5, 14, 11, 21), { Rec(1, <<1, 1>>), Rec(1, <<1, 2>>) })
    \cup Family(FmtRec(2, 5, 15, 14, 17) \o FmtRec(3, 5, 16, 13, 17),
                { Rec(2, <<5, 1>>), Rec(3, <<1, 3>>) })
    \cup Family(FmtRec(4, 5, 17, 11, 22), { Rec(4, <<1, 2>>) })

(* logs for the clocks. IMU and ACC1 have TimeMS first *)
FMT_IMU == FmtRec(2, 5, 11, 9, 13)
ClockStreams ==
    (* GPS with TimeUS, GWk, GMS; ATT with TimeUS; GPS2 with TimeMS, Week, T *)
    Family(FMT_GPS \o FMT_ATT \o FmtRec(5, 6, 9, 4, 15),
           { Rec(4, <<1, 1, 0>>), Rec(1, <<3>>), Rec(5, <<2, 1, 2>>) })
    \cup Family(FMT_ATT \o FMT_IMU \o FmtRec(3, 5, 12, 9, 13),
                { Rec(1, <<3>>), Rec(2, <<2, 0>>), Rec(2, <<0, 0>>), Rec(3, <<2, 0>>) })
    (* GPS with TimeMS, Week, T *)
    \cup Family(FmtRec(4, 6, 4, 4, 15) \o FMT_IMU, { Rec(4, <<3, 1, 2>>), Rec(2, <<2, 0>>) })
    (* GPS with Week, TimeMS *)
    \cup Family(FmtRec(4, 5, 4, 9, 10), { Rec(4, <<1, 5>>), Rec(4, <<1, 7>>) })
    (* three fixes: the clock scan of open ends at the second *)
    \cup { FmtRec(4, 5, 4, 9, 10) \o Rec(4, <<1, 5>>) \o Rec(4, <<1, 7>>) \o Rec(4, <<1, 9>>) }
    (* GPS with Week alone *)
    \cup Family(FmtRec(4, 4, 4, 5, 14), { Rec(4, <<1>>) })
    (* GPS with T, Week *)
    \cup Family(FmtRec(4, 5, 4, 9, 9), { Rec(4, <<2, 1>>) })
    (* TIME with StartTime; GPS with GPSTime *)
    \cup Family(FmtRec(6, 4, 10, 5, 11) \o FmtRec(4, 4, 4, 5, 12),
                { Rec(6, <<4>>), Rec(4, <<9>>) })

TypeSets == {{"MODE"}, {"ATT", "MODE"}}

---------------------------------------------------------------------------
(* ghost state: what the last public call returned, and the calls made since
   the last rewind *)
(* the part of a rewound reader that reading on from it depends on *)
Rewound(s) == [s EXCEPT !.indexes = <<>>, !.type_nums = NoList, !.prev_type = -1]
NoRet == [op |-> "", type |-> {}, strict |-> FALSE, m |-> NoMsg, ts |-> NoTS, ok |-> TRUE]
Returned(op, type, strict, m, ts, ok) ==
    [op |-> op, type |-> type, strict |-> strict, m |-> m, ts |-> ts, ok |-> ok]

(* since.kind: "fresh" no call yet; "recv_msg" only recv_msg calls;
   "recv_match" only recv_match calls with one type set and one strict flag;
   "mixed" other sequences of recv_msg and recv_match calls; "other" some
   other call was made *)
Since(kind, type, strict, rets, done) ==
    [kind |-> kind, type |-> type, strict |-> strict, rets |-> rets, done |-> done]
Fresh == Since("fresh", {}, FALSE, <<>>, FALSE)
Other == Since("other", {}, FALSE, <<>>, FALSE)

Called(op, type, strict, m) ==
    IF since.kind = "other" THEN Other
    ELSE IF since.kind = "fresh"
            \/ (since.kind = op /\ since.type = type /\ since.strict = strict)
    THEN Since(op, type, strict,
               IF IsNone(m) THEN since.rets ELSE Append(since.rets, m.ofs),
               since.done \/ IsNone(m))
    ELSE Since("mixed", {}, FALSE, <<>>, FALSE)

BuiltinFMT == DFFormat(FMT_TYPE, "FMT", HDR_LEN + CalcSize(FORMATS[1]), FORMATS[1], COLUMNS[1], NoFmt)

InitOf(logs, tails, zeros) ==
    /\ pc = "index"
    /\ data_map \in logs
    /\ \E tail \in tails : data_len = Len(data_map) + tail
    /\ offset = 0 /\ remaining = 0 /\ prev_type = -1
    /\ formats = (FMT_TYPE :> BuiltinFMT)
    /\ unpackers = <<>> /\ offsets = <<>> /\ counts = <<>> /\ name_to_id = <<>>
    /\ type_nums = NoList /\ indexes = <<>>
    /\ messages = <<>> /\ flightmode = "UNKNOWN" /\ mav_type = "FIXED_WING"
    /\ params = <<>> /\ clock = DFReaderClock("none") /\ timestamp = T0
    /\ flightmodes = NoModes
    /\ unit_lookup = <<>> /\ mult_lookup = <<>>
    /\ zero_time_base \in zeros
    /\ ix = [ofs |-> 0, lengths |-> <<>>, fmtu_type |-> -1, unit_type |-> -1, mult_type |-> -1,
             type_instances |-> <<>>, pct |-> 0, progress |-> <<>>]
    /\ ic = [px4_msg_time |-> NoMsg, px4_msg_gps |-> NoMsg, gps_interp_msg_gps1 |-> NoMsg,
             first_us_stamp |-> -1, first_ms_stamp |-> -1, have_good_clock |-> FALSE,
             first_modern_gps_message |-> NoMsg]
    /\ ret = NoRet
    /\ since = Fresh
    /\ rewound = Rewound(Self)

Init == InitOf(Streams, Tails, {FALSE})

(* the interpolating clock counts the messages of a type read since the last
   GPS fix or rewind: the calls stop when a count reaches MaxCount *)
CountsBelow == \A t \in DOMAIN clock.counts_since_gps : clock.counts_since_gps[t] < MaxCount

(* DFReader_binary.__init__: init_arrays *)
IndexStep ==
    /\ pc = "index"
    /\ Signatures(Self, ix.ofs) # {}
    /\ \E r \in {index_record(Self, ix, SetMin(Signatures(Self, ix.ofs)))} :
          /\ Len(Get(offsets, Byte(Self, SetMin(Signatures(Self, ix.ofs)) + 2), <<>>)) <= Len(data_map)
          /\ pc' = IF ~r.ok THEN "failed" ELSE IF r.brk THEN "clock1" ELSE "index"
          /\ \E s \in {IF r.ok /\ r.brk THEN index_end(r.s) ELSE r.s} : SetSelf(s)
          /\ ix' = r.ix
    /\ UNCHANGED <<ic, ret, since, rewound>>

IndexDone ==
    /\ pc = "index"
    /\ Signatures(Self, ix.ofs) = {}
    /\ pc' = "clock1"
    /\ \E s \in {index_end(Self)} : SetSelf(s)
    /\ UNCHANGED <<ix, ic, ret, since, rewound>>

(* DFReader_binary.__init__: init_clock *)
ClockScan1 ==
    /\ pc = "clock1"
    /\ \E r \in {clock_scan1(Self, ic)} :
          /\ pc' = IF ~r.ok THEN "failed" ELSE IF r.brk THEN "clock2" ELSE "clock1"
          /\ \E s \in {IF r.ok /\ r.brk THEN rewind_(r.s, TRUE) ELSE r.s} : SetSelf(s)
          /\ ic' = r.ic
    /\ UNCHANGED <<ix, ret, since, rewound>>

ClockScan2 ==
    /\ pc = "clock2"
    /\ CountsBelow
    /\ \E r \in {clock_scan2(Self, ic)} :
          /\ pc' = IF ~r.ok THEN "failed" ELSE IF r.brk THEN "ready" ELSE "clock2"
          /\ \E s \in {IF r.ok /\ r.brk THEN init_clock_end(r.s, r.ic) ELSE r.s} :
                /\ SetSelf(s)
                /\ rewound' = IF r.ok /\ r.brk THEN Rewound(s) ELSE rewound
          
          /\ ic' = r.ic
    /\ UNCHANGED <<ix, ret, since>>

(* the public operations *)
RecvMsg ==
    /\ pc = "ready"
    /\ CountsBelow
    /\ Len(since.rets) < MaxReturns
    /\ \E r \in {recv_msg(Self)} :
          /\ SetSelf(r.s)
          /\ ret' = Returned("recv_msg", {}, FALSE, r.m, r.m.ts, r.ok)
          /\ since' = Called("recv_msg", {}, FALSE, r.m)
    /\ UNCHANGED <<pc, ix, ic, rewound>>

RecvMatch(type, strict) ==
    /\ pc = "ready"
    /\ CountsBelow
    /\ Len(since.rets) < MaxReturns
    /\ \E r \in {recv_match(Self, type, strict)} :
          /\ SetSelf(r.s)
          /\ ret' = Returned("recv_match", {}, FALSE, r.m, r.m.ts, r.ok)
          /\ since' = Called("recv_match", type, strict, r.m)
    /\ UNCHANGED <<pc, ix, ic, rewound>>

SkipToType(type, strict) ==
    /\ pc = "ready"
    /\ remaining > -MaxDrift
    /\ \E s \in {skip_to_type(Self, type, strict)} : SetSelf(s)
    /\ ret' = Returned("skip_to_type", type, strict, NoMsg, NoTS, TRUE)
    /\ since' = Other
    /\ UNCHANGED <<pc, ix, ic, rewound>>

Rewind ==
    /\ pc = "ready"
    /\ \E s \in {rewind_(Self, FALSE)} : SetSelf(s) /\ rewound' = Rewound(s)
    /\ ret' = Returned("rewind", {}, FALSE, NoMsg, NoTS, TRUE)
    /\ since' = Fresh
    /\ UNCHANGED <<pc, ix, ic>>

LastTimestamp ==
    /\ pc = "ready"
    /\ CountsBelow
    /\ remaining > -MaxDrift
    /\ \E r \in {last_timestamp(Self)} :
          /\ SetSelf(r.s)
          /\ ret' = Returned("last_timestamp", {}, FALSE, NoMsg, IF r.ok THEN r.ts ELSE NoTS, r.ok)
    /\ since' = Other
    /\ UNCHANGED <<pc, ix, ic, rewound>>

FlightmodeList ==
    /\ pc = "ready"
    /\ \E r \in {flightmode_list(Self)} :
          /\ SetSelf(r.s)
          /\ ret' = Returned("flightmode_list", {}, FALSE, NoMsg, NoTS, r.ok)
          /\ since' = IF r.ok THEN Fresh ELSE Other
          /\ rewound' = IF r.ok THEN Rewound(r.s) ELSE rewound
    /\ UNCHANGED <<pc, ix, ic>>

Next ==
    \/ IndexStep
    \/ IndexDone
    \/ ClockScan1
    \/ ClockScan2
    \/ RecvMsg
    \/ \E type \in TypeSets, strict \in BOOLEAN : RecvMatch(type, strict)
    \/ \E type \in TypeSets : SkipToType(type, TRUE)
    \/ Rewind
    \/ LastTimestamp
    \/ FlightmodeList

Spec == Init /\ [][Next]_vars

(* the reader opened on a damaged log *)
SpecErr ==
    InitOf((Family(FMT_ATT, PiecesE) \cup Family(<<>>, PiecesE)) \ {<<>>}, Tails, {FALSE})
    /\ [][Next]_vars

(* the reader opened on a log with units and instances *)
SpecUnits == InitOf(UnitStreams \cup PackStreams, {0}, {FALSE}) /\ [][Next]_vars

(* the reader opened on a log for the clocks, with and without zero_time_base *)
SpecClock == InitOf(ClockStreams, {0}, BOOLEAN) /\ [][Next]_vars

---------------------------------------------------------------------------
(* DFReader_text: the log is the sequence of its characters, and a reader t
   has data_map, data_len, offset and formats, which is keyed by name. The
   logs drawn have no FMTU, UNIT, MULT, GPS, TIME, MODE, MSG, VER, STAT or PARM
   lines and no TimeUS or TimeMS column: _add_msg and init_clock then read
   nothing of a message but its type, and change neither offset nor formats *)

(* data.find(sub, start): the offset of the first sub from start on, or -1 *)
text_find(data, sub, start) ==
    LET hits == {i \in start..(Len(data) - Len(sub)) : SubSeq(data, i + 1, i + Len(sub)) = sub}
    IN IF hits = {} THEN -1 ELSE SetMin(hits)

(* _parse_next on the line that starts at ofs: endline, and the elements with
   the empty trailing column filled in; delimiter is what _rewind has set *)
text_elements(data, ofs) ==
    LET nl == text_find(data, <<"\n">>, ofs)
        endline == IF nl = -1 THEN Len(data) ELSE nl
        delimiter == IF text_find(data, <<"F", "M", "T", ",", " ">>, 0) = -1 /\ text_find(data, <<"F",
                "M", "T", ",">>, 0) # -1
                     THEN <<",">> ELSE <<",", " ">>
        RECURSIVE rstrip(_)
        rstrip(q) == IF q # <<>> /\ Last(q) \in {" ", "\t", "\r", "\n"}
                     THEN rstrip(SubSeq(q, 1, Len(q) - 1)) ELSE q
        (* q.split(delimiter) *)
        RECURSIVE split(_)
        split(q) ==
            IF text_find(q, delimiter, 0) = -1 THEN <<q>>
            ELSE <<SubSeq(q, 1, text_find(q, delimiter, 0))>>
                 \o split(SubSeq(q, text_find(q, delimiter, 0) + Len(delimiter) + 1, Len(q)))
        e == split(rstrip(SubSeq(data, ofs + 1, endline)))
    IN [delimiter |-> delimiter, endline |-> endline,
        elements |-> IF Len(e) = 5 /\ e[5] = <<",">>
                     THEN SubSeq(e, 1, 4) \o << <<>>, <<>> >> ELSE e]

(* a reader that takes a line however few its elements *)
text_enough_always(elements, fmt) == TRUE

(* `if len(elements) < len(fmt.format)+1:` does not hold *)
text_enough(elements, fmt) == Len(elements) >= Len(fmt.format) + 1

(* DFReader_text._parse_next: [s, m, ok], ok = FALSE an exception *)
RECURSIVE text_parse_next(_)
text_parse_next(t) ==
    LET (* the `while True:` loop: the first line with two elements or more *)
        RECURSIVE Line(_)
        Line(ofs) ==
            IF ofs > t.data_len THEN [elements |-> <<>>, start |-> ofs, offset |-> ofs]
            ELSE IF Len(text_elements(t.data_map, ofs).elements) >= 2
                 THEN [elements |-> text_elements(t.data_map, ofs).elements, start |-> ofs,
                       offset |-> text_elements(t.data_map, ofs).endline + 1]
            ELSE Line(text_elements(t.data_map, ofs).endline + 1)
        (* int(x) of digits with blanks around them: -1 a ValueError *)
        strip(q) == SelectSeq(q, LAMBDA c : c # " ")
        Digit(c) == CHOOSE d \in 0..9 : <<"0", "1", "2", "3", "4", "5", "6", "7", "8", "9">>[d + 1] = c
        RECURSIVE digits(_)
        digits(q) == IF q = <<>> THEN 0 ELSE 10 * digits(SubSeq(q, 1, Len(q) - 1)) + Digit(Last(q))
        int(x) == IF strip(x) = <<>> \/ \E i \in 1..Len(strip(x)) :
                                           strip(x)[i] \notin {"0", "1", "2", "3", "4", "5", "6", "7", "8", "9"}
                  THEN -1 ELSE digits(strip(x))
        (* columns.split(',') of DFFormat.__init__ *)
        RECURSIVE split(_)
        split(q) ==
            IF text_find(q, <<",">>, 0) = -1 THEN <<q>>
            ELSE <<SubSeq(q, 1, text_find(q, <<",">>, 0))>>
                 \o split(SubSeq(q, text_find(q, <<",">>, 0) + 2, Len(q)))
        RECURSIVE join(_)
        join(q) == IF q = <<>> THEN <<>> ELSE IF Len(q) = 1 THEN q[1]
                   ELSE q[1] \o <<",">> \o join(Tail(q))
        Message(s, line, fmt, elements) ==
            [s |-> s, ok |-> TRUE,
             m |-> [fmt |-> fmt, elements |-> elements, ofs |-> line.start, ts |-> NoTS]]
        (* `if name == 'FMT':` *)
        FMT(t1, line, fmt, el) ==
            LET elements == IF text_elements(t.data_map, line.start).delimiter = <<",">>
                            THEN SubSeq(el, 1, Min2(4, Len(el))) \o <<join(SubSeq(el, 5, Len(el)))>>
                            ELSE el
                columns == IF el[3] = <<"F", "M", "T">> /\ elements[5] = <<"T", "y", "p", "e",
                        ",", "L", "e", "n", "g", "t", "h", ",", "N", "a", "m", "e", ",", "F",
                        "o", "r", "m", "a", "t">> THEN <<"T", "y", "p", "e", ",", "L", "e", "n",
                        "g", "t", "h", ",", "N", "a", "m", "e", ",", "F", "o", "r", "m", "a",
                        "t", ",", "C", "o", "l", "u", "m", "n", "s">> ELSE elements[5]
            IN IF Len(el) < 3 \/ Len(elements) < 5 \/ int(el[1]) = -1 \/ int(elements[2]) = -1
                  \/ DFFormatRaises(elements[4])
               THEN [s |-> t1, m |-> NoMsg, ok |-> FALSE]
               ELSE Message([t1 EXCEPT !.formats =
                                 Put(@, el[3], [type |-> int(el[1]), name |-> el[3],
                                                len |-> int(elements[2]), format |-> elements[4],
                                                columns |-> IF columns = <<>> THEN <<>>
                                                            ELSE split(columns)])],
                            line, fmt, elements)
        (* from `if self.offset > self.data_len:` on *)
        Read(t1, line) ==
            IF t1.offset > t1.data_len THEN [s |-> t1, m |-> NoMsg, ok |-> TRUE]
            ELSE IF line.elements[1] \notin DOMAIN t1.formats THEN text_parse_next(t1)
            ELSE IF ~text_enough(line.elements, t1.formats[line.elements[1]])
                 THEN text_parse_next(t1)
            ELSE IF t1.formats[line.elements[1]].name = <<"F", "M", "T">>
                 THEN FMT(t1, line, t1.formats[line.elements[1]], Tail(line.elements))
            ELSE Message(t1, line, t1.formats[line.elements[1]], Tail(line.elements))
    IN CHOOSE r \in {Read([data_map |-> t.data_map, data_len |-> t.data_len,
                           offset |-> line.offset, formats |-> t.formats], line) :
                     line \in {Line(t.offset)}} : TRUE

(* DFReader_text.__init__: _rewind, init_arrays, init_clock and _rewind:
   [s, ok], ok = FALSE an exception *)
DFReader_text(data) ==
    LET (* _rewind: `self.offset = self.data_map.find(b'FMT, ')` and what follows *)
        first == IF text_find(data, <<"F", "M", "T", ",", " ">>, 0) = -1
                 THEN text_find(data, <<"F", "M", "T", ",">>, 0)
                 ELSE text_find(data, <<"F", "M", "T", ",", " ">>, 0)
        t0 == [data_map |-> data, data_len |-> Len(data), offset |-> first,
               formats |-> (<<"F", "M", "T">> :> [type |-> 128, name |-> <<"F", "M", "T">>, len |-> 89,
                                      format |-> <<"B", "B", "n", "N", "Z">>,
                                      columns |-> << <<"T", "y", "p", "e">>, <<"L", "e", "n", "g", "t", "h">>,
                                                  <<"N", "a", "m", "e">>, <<"F", "o", "r", "m", "a", "t">>,
                                                  <<"C", "o", "l", "u", "m", "n", "s">> >>])]
        At(r, ofs) == text_parse_next([r.s EXCEPT !.offset = ofs])
        (* the loop of init_arrays, seen the keys of self.offsets *)
        RECURSIVE init_arrays(_, _, _)
        init_arrays(r, ofs, seen) ==
            LET (* data_map[ofs:ofs+4].decode().split(',')[0] *)
                four == SubSeq(data, ofs + 1, Min2(ofs + 4, Len(data)))
                mtype == IF text_find(four, <<",">>, 0) = -1 THEN four
                         ELSE SubSeq(four, 1, text_find(four, <<",">>, 0))
                nl == text_find(data, <<"\n">>, ofs)
            IN IF ~(ofs + 16 < Len(data)) THEN r
               ELSE CHOOSE q \in
                        {IF ~fmt.ok \/ nl = -1 THEN fmt
                         ELSE init_arrays(fmt, nl + 1, seen \cup {mtype}) :
                         fmt \in {IF new.ok /\ mtype = <<"F", "M", "T">> THEN At(new, ofs) ELSE new :
                                  new \in {IF mtype \notin seen THEN At(r, ofs) ELSE r}}} : TRUE
        (* a loop of init_clock: recv_msg until it returns None *)
        RECURSIVE scan(_)
        scan(r) == CHOOSE q \in {IF ~p.ok \/ IsNone(p.m) THEN p ELSE scan(p) :
                                 p \in {IF r.ok THEN text_parse_next(r.s) ELSE r}} : TRUE
        rewind(r) == [s |-> [r.s EXCEPT !.offset = first], m |-> NoMsg, ok |-> r.ok]
    IN rewind(scan(rewind(scan(rewind(
           init_arrays([s |-> t0, m |-> NoMsg, ok |-> TRUE], first, {}))))))

(* DFReader_text.recv_msg *)
TextRecvMsg ==
    /\ pc = "text"
    /\ \E r \in {text_parse_next([data_map |-> data_map, data_len |-> data_len,
                                  offset |-> offset, formats |-> formats])} :
          /\ offset' = r.s.offset
          /\ formats' = r.s.formats
          /\ ret' = Returned("recv_msg", {}, FALSE, r.m, NoTS, r.ok)
    /\ UNCHANGED <<pc, data_map, data_len, remaining, prev_type, unpackers, offsets, counts,
                   name_to_id, type_nums, indexes, messages, flightmode, mav_type, params,
                   clock, timestamp, flightmodes, unit_lookup, mult_lookup, zero_time_base,
                   ix, ic, since, rewound>>

(* DFReader_text.__init__: the text reader opened on a text log. The logs are
   a FMT line for A, then up to two lines, the last of them with or without
   its newline; with ", " and with "," between the elements *)
TextInit ==
    LET Lines == { <<"A", ",", " ", "1", ",", " ", "2", "\n">>,
                   <<"A", ",", " ", "1", "\n">>,
                   <<"A", "\n">>,
                   <<"X", ",", " ", "1", ",", " ", "2", "\n">>,
                   <<"F", "M", "T", ",", " ", "2", ",", " ", "9", ",", " ", "B", ",", " ", "Q",
                           "B", "B", "B", "B", ",", " ", "T", ",", "U", ",", "V", ",", "W", ",",
                           "X", "\n">>,
                   <<"B", ",", " ", "1", ",", " ", "2", ",", " ", "3", ",", " ", ",", "\n">>,
                   <<"B", ",", " ", "1", ",", " ", "2", ",", " ", "3", "\n">>,
                   <<"F", "M", "T", ",", " ", "3", ",", " ", "3", "\n">> }
        Body == {<<a>> : a \in Lines} \cup {<<a, b>> : a, b \in Lines}
        Joined(q) == IF Len(q) = 1 THEN q[1] ELSE q[1] \o q[2]
        Spaced == { <<"F", "M", "T", ",", " ", "1", ",", " ", "9", ",", " ", "A", ",", " ", "Q",
                "B", ",", " ", "T", ",", "V", "\n">> \o Joined(q) : q \in Body }
        Cut == { SubSeq(q, 1, Len(q) - 1) : q \in Spaced }
        Packed == { <<"F", "M", "T", ",", "1", ",", "9", ",", "A", ",", "Q", "B", ",", "T", ",",
                "V", "\n">> \o c : c \in { <<"A", ",", "1", ",", "2", "\n">>,
                                             <<"A", ",", "1", "\n">>,
                                             <<"A", ",", "1", ",", "2", "\n">> \o <<"A", ",",
                                                     "1", "\n">> \o <<"A", ",", "1", ",", "2",
                                                     "\n">> } }
    IN
    /\ data_map \in Spaced \cup Cut \cup Packed
    /\ data_len = Len(data_map)
    /\ \E opened \in {DFReader_text(data_map)} :
          /\ pc = IF opened.ok THEN "text" ELSE "failed"
          /\ offset = opened.s.offset
          /\ formats = opened.s.formats
    /\ remaining = 0 /\ prev_type = -1
    /\ unpackers = <<>> /\ offsets = <<>> /\ counts = <<>> /\ name_to_id = <<>>
    /\ type_nums = NoList /\ indexes = <<>>
    /\ messages = <<>> /\ flightmode = "UNKNOWN" /\ mav_type = "FIXED_WING"
    /\ params = <<>> /\ clock = DFReaderClock("gps_interpolated") /\ timestamp = T0
    /\ flightmodes = NoModes
    /\ unit_lookup = <<>> /\ mult_lookup = <<>>
    /\ zero_time_base = FALSE
    /\ ix = [ofs |-> 0, lengths |-> <<>>, fmtu_type |-> -1, unit_type |-> -1, mult_type |-> -1,
             type_instances |-> <<>>, pct |-> 0, progress |-> <<>>]
    /\ ic = [px4_msg_time |-> NoMsg, px4_msg_gps |-> NoMsg, gps_interp_msg_gps1 |-> NoMsg,
             first_us_stamp |-> -1, first_ms_stamp |-> -1, have_good_clock |-> FALSE,
             first_modern_gps_message |-> NoMsg]
    /\ ret = NoRet
    /\ since = Fresh
    /\ rewound = Rewound(Self)

SpecText == TextInit /\ [][TextRecvMsg]_vars

---------------------------------------------------------------------------
(* The claims *)
StrictlyIncreasing(q) == \A i, j \in 1..Len(q) : i < j => q[i] < q[j]

(* C1: between two rewinds, the records that successive recv_msg calls return
   start at strictly increasing offsets, whatever the bytes and the lengths
   the FMT records declare, and each call leaves the cursor strictly beyond
   the start of the record it returned *)
C1_RecvMsgAdvances ==
    since.kind = "recv_msg" =>
        /\ StrictlyIncreasing(since.rets)
        /\ (ret.op = "recv_msg" /\ ~IsNone(ret.m)) => offset > ret.m.ofs

Range(q) == {q[i] : i \in 1..Len(q)}

(* the offsets the index lists for the types named in a set *)
IndexedOf(type) ==
    UNION {Range(offsets[t]) : t \in {u \in DOMAIN offsets :
                                        u \in DOMAIN formats /\ formats[u].name \in type}}

(* C2: after a rewind, repeated recv_match(type=S, strict=True) calls with one
   set S return the indexed records whose type name is in S and no others,
   each once, at strictly increasing offsets, and none from then on *)
C2_MatchReturnsIndexed ==
    (since.kind = "recv_match" /\ since.strict) =>
        /\ StrictlyIncreasing(since.rets)
        /\ Range(since.rets) \subseteq IndexedOf(since.type)
        /\ since.done => Range(since.rets) = IndexedOf(since.type)
        /\ (since.done /\ ret.op = "recv_match") => IsNone(ret.m)

(* C3: whatever recv_msg and recv_match calls were made since the last rewind,
   skip_to_type(S) puts the cursor on the lowest-offset indexed record of a
   type in S (with the key types, when not strict) at or after the cursor,
   and never moves the cursor backwards *)
C3_SkipToNext ==
    [][(ret'.op = "skip_to_type" /\ since.kind # "other") =>
          /\ offset' >= offset
          /\ \A o \in IndexedOf(IF ret'.strict THEN ret'.type ELSE ret'.type \cup KeyTypes) :
                o >= offset => offset' <= o
          /\ offset' < data_len =>
                offset' \in IndexedOf(IF ret'.strict THEN ret'.type ELSE ret'.type \cup KeyTypes)
      ]_vars

(* recv_msg called from reader s until it returns the record at offset o or
   one after it, or None, or n calls were made: the last result [s, m] *)
RECURSIVE read_up_to(_, _, _)
read_reached(r, o, n) ==
    IF IsNone(r.m) \/ r.m.ofs >= o \/ n <= 1 THEN r ELSE read_up_to(r.s, o, n - 1)
read_up_to(s, o, n) == read_reached(recv_msg(s), o, n)

(* C4: starting from a rewind, when recv_match(type=S, strict=False) returns
   the record at offset o, flight mode, vehicle type and parameters are those
   that recv_msg calls from the same rewound reader leave when they have read
   up to the record at o *)
C4_MatchKeepsLiveState ==
    (since.kind = "recv_match" /\ ~since.strict /\ ret.op = "recv_match" /\ ~IsNone(ret.m)) =>
        \A r \in {read_up_to(rewound, ret.m.ofs, MaxReplay)} :
            r.m.ofs = ret.m.ofs =>
                /\ r.s.flightmode = flightmode
                /\ r.s.mav_type = mav_type
                /\ r.s.params = params

(* C5: rewind() puts the cursor at the start of the log and leaves the
   per-type offset lists, the per-type counts, the format registry and the
   unit and multiplier lookup tables as they were *)
C5_RewindKeepsIndex ==
    [][ret'.op = "rewind" =>
          /\ offset' = 0
          /\ offsets' = offsets
          /\ counts' = counts
          /\ formats' = formats
          /\ unit_lookup' = unit_lookup
          /\ mult_lookup' = mult_lookup
      ]_vars

C5_Rewound ==
    /\ ret.op = "rewind"
    /\ offset = 0
    /\ DOMAIN offsets # {} /\ DOMAIN unit_lookup # {} /\ DOMAIN mult_lookup # {}

AllOffsets(s) == UNION {Range(s.offsets[i]) : i \in DOMAIN s.offsets}

(* C6: last_timestamp() returns the stamp of the record at the highest offset
   of the log, or, when recv_msg cannot decode that one, the stamp of the
   record at the second-highest offset of all records; it always returns a
   value *)
C6_LastTimestamp ==
    [][ret'.op = "last_timestamp" =>
          /\ ret'.ok
          /\ \A r1 \in {recv_msg([Self EXCEPT !.offset = SetMax0(AllOffsets(Self))])} :
                IF ~IsNone(r1.m) THEN ret'.ts = r1.m.ts
                ELSE \A r2 \in {recv_msg([r1.s EXCEPT !.offset =
                                    SetMax0(AllOffsets(Self) \ {SetMax0(AllOffsets(Self))})])} :
                        ~IsNone(r2.m) => ret'.ts = r2.m.ts
      ]_vars

(* the stamps of the records that successive recv_match(type, strict=True)
   calls return from reader s, at most n of them *)
RECURSIVE match_stamps(_, _, _)
match_stamped(r, type, n) ==
    IF IsNone(r.m) \/ n <= 1 THEN IF IsNone(r.m) THEN <<>> ELSE <<r.m.ts>>
    ELSE <<r.m.ts>> \o match_stamps(r.s, type, n - 1)
match_stamps(s, type, n) == match_stamped(recv_match(s, type, TRUE), type, n)

NonDecreasing(q) == \A i \in 1..Len(q) - 1 : TLeq(q[i], q[i + 1])
Starts(list) == [i \in 1..Len(list) |-> list[i].t0]
NoRepeatedMode(list) == \A i \in 1..Len(list) - 1 : list[i].mode # list[i + 1].mode
Chained(list) == \A i \in 1..Len(list) - 1 : list[i].t1 = list[i + 1].t0
ModesLogList ==
    << [mode |-> "A", t0 |-> TUs(0), t1 |-> TUs(20)], [mode |-> "B", t0 |-> TUs(20), t1 |-> TUs(20)] >>

(* C7 as stated: the list flightmode_list() returns is ordered by time, has
   no two adjacent entries of one mode, has each t_end equal to the next
   t_start and its last t_end equal to what last_timestamp() returns; for
   MODE records at stamps 0, 10, 20 with modes A, A, B it is
   [(A,0,20),(B,20,last)] *)
C7_ListOrderedByTime ==
    (ret.op = "flightmode_list" /\ ret.ok /\ Len(flightmodes) > 0) =>
        /\ NonDecreasing(Starts(flightmodes))
        /\ NoRepeatedMode(flightmodes)
        /\ Chained(flightmodes)
        /\ \A lt \in {last_timestamp(Self)} : lt.ok /\ Last(flightmodes).t1 = lt.ts
        /\ data_map = ModesLog => flightmodes = ModesLogList

(* what the scan of flightmode_list leaves when it is run from reader s *)
scan_of(s) == flightmode_scan([rewind_(s, FALSE) EXCEPT !.flightmodes = <<>>], <<>>, "<None>", NoTS)
scan_last(sc) == last_timestamp([sc.s EXCEPT !.flightmodes = sc.list])

(* C7, amended: the list flightmode_list() returns has no two adjacent
   entries of one mode and each t_end equal to the next t_start; when the call
   computes the list, the last t_end is the value last_timestamp() returned at
   the end of the scan, and the list is ordered by time if the stamps of the
   MODE and PARM records do not decrease along the log; for MODE records at
   stamps 0, 10, 20 with modes A, A, B it is [(A,0,20),(B,20,20)] *)
C7_FlightmodeList ==
    [][(ret'.op = "flightmode_list" /\ ret'.ok /\ Len(flightmodes') > 0) =>
          /\ NoRepeatedMode(flightmodes')
          /\ Chained(flightmodes')
          /\ data_map = ModesLog => flightmodes' = ModesLogList
          /\ flightmodes = NoModes =>
                /\ \A sc \in {scan_of(Self)} : \A lt \in {scan_last(sc)} :
                        Last(flightmodes').t1 = lt.ts
                /\ NonDecreasing(match_stamps(rewind_(Self, FALSE), {"MODE", "PARM"}, MaxReplay))
                      => NonDecreasing(Starts(flightmodes'))
      ]_vars

C7_ListComputed ==
    /\ ret.op = "flightmode_list" /\ ret.ok
    /\ data_map = ModesLog
    /\ flightmodes = ModesLogList

(* the offsets of the records that successive recv_msg calls return from
   reader s, at most n of them *)
RECURSIVE pass_offsets(_, _)
pass_visited(r, n) ==
    IF IsNone(r.m) \/ n <= 1 THEN IF IsNone(r.m) THEN <<>> ELSE <<r.m.ofs>>
    ELSE <<r.m.ofs>> \o pass_offsets(r.s, n - 1)
pass_offsets(s, n) == pass_visited(recv_msg(s), n)

Opened == pc = "ready" /\ ret = NoRet

(* C8: after open, with every record outside the trailing 528 bytes, each
   offset is indexed once, recv_msg started at an indexed offset returns the
   record at that offset, and the indexed offsets are the offsets a sequential
   recv_msg pass visits *)
C8_IndexComplete ==
    (Opened /\ data_len = Len(data_map) + TAIL_GARBAGE) =>
        /\ \A t \in DOMAIN offsets : StrictlyIncreasing(offsets[t])
        /\ \A o \in AllOffsets(Self) : \A r \in {recv_msg([Self EXCEPT !.offset = o])} : r.m.ofs = o
        /\ AllOffsets(Self) = Range(pass_offsets(Self, MaxReplay))

(* the signatures of the log that are followed by a type id that is not in
   the format registry *)
UnknownHeaders ==
    {k \in 0..Len(data_map) - HDR_LEN : Signature(Self, k) /\ Byte(Self, k + 2) \notin DOMAIN formats}

(* C10: past a signature followed by a type id that is not in the format
   registry nothing is indexed, and no recv_msg or recv_match call returns a
   record located after it *)
C10_StopsAtUnknownType ==
    pc = "ready" =>
        \A k \in UnknownHeaders :
            /\ \A o \in AllOffsets(Self) : o <= k
            /\ (ret.op \in {"recv_msg", "recv_match"} /\ ~IsNone(ret.m)) => ret.m.ofs < k

(* the reader s on the log that has the bytes junk inserted at offset o *)
Junk == {<<0>>, <<1, 2>>}
Inserted(s, o, junk) ==
    [s EXCEPT !.data_map = SubSeq(s.data_map, 1, o) \o junk \o SubSeq(s.data_map, o + 1, Len(s.data_map)),
              !.data_len = s.data_len + Len(junk),
              !.remaining = s.remaining + Len(junk)]
SameRecord(m1, m2) ==
    /\ m1.fmt = m2.fmt /\ m1.elements = m2.elements
    /\ \A i \in 1..Len(m1.fmt.columns) : GetAttr(m1, m1.fmt.columns[i]) = GetAttr(m2, m1.fmt.columns[i])

(* C9: when recv_msg returns the record R at offset o, or the indexer lists
   it, then with k bytes that are not magic bytes inserted before R the same
   call returns R with the same field values at o + k, and the same indexing
   step lists R at o + k *)
C9_Resync ==
    [][/\ (ret'.op = "recv_msg" /\ ~IsNone(ret'.m)) =>
              \A junk \in Junk : \A r \in {recv_msg(Inserted(Self, ret'.m.ofs, junk))} :
                  /\ r.m.ofs = ret'.m.ofs + Len(junk)
                  /\ SameRecord(r.m, ret'.m)
       /\ (pc = "index" /\ pc' = "index" /\ ix'.ofs # ix.ofs) =>
              \A junk \in Junk : \A o \in {SetMin(Signatures(Self, ix.ofs))} :
                  /\ Signatures(Inserted(Self, o, junk), ix.ofs) # {}
                  /\ SetMin(Signatures(Inserted(Self, o, junk), ix.ofs)) = o + Len(junk)
                  /\ \A r \in {index_record(Inserted(Self, o, junk), ix, o + Len(junk))} :
                        /\ r.ok /\ ~r.brk
                        /\ r.ix.ofs = ix'.ofs + Len(junk)
                        /\ r.s.offsets[Byte(Self, o + 2)] = Append(Get(offsets, Byte(Self, o + 2), <<>>), o + Len(junk))
                        /\ r.s.formats = formats'
      ]_vars

C9_ResyncedRecord ==
    /\ ret.op = "recv_msg" /\ ~IsNone(ret.m)
    /\ since.rets = <<0, 8, 17>>
    /\ Byte(Self, 16) = 0
    /\ 17 \in AllOffsets(Self)

---------------------------------------------------------------------------
(* C11: when the first framed record of known type at or after the cursor has
   fewer bytes left in the log than its declared length, recv_msg returns
   none and every later recv_msg call returns none too. *)
ShortAtCursor(s) ==
    /\ Recognised(s) # {}
    /\ \E k \in {SetMin(Recognised(s))} :
          s.data_len - (k + HDR_LEN) < s.formats[Byte(s, k + 2)].len - HDR_LEN

RECURSIVE none_follows(_, _)
none_follows(s, n) ==
    n = 0 \/ \E r \in {recv_msg(s)} : IsNone(r.m) /\ none_follows(r.s, n - 1)

C11_ShortRecordEndsLog ==
    [][(ret'.op = "recv_msg" /\ ShortAtCursor(Self))
          => (IsNone(ret'.m) /\ none_follows(Self', MaxReturns))]_vars

---------------------------------------------------------------------------
(* C12: when the first framed record of known type at or after the cursor is
   complete but does not unpack, recv_msg skips it: the call returns a record
   located after it, and returns none only when no later recv_msg call
   returns a record either. *)
UndecodableAt(s, k) ==
    \E fmt \in {s.formats[Byte(s, k + 2)]} :
       /\ s.data_len - (k + HDR_LEN) >= fmt.len - HDR_LEN
       /\ CalcSize(Get(s.unpackers, Byte(s, k + 2), fmt.format)) # Max2(0, fmt.len - HDR_LEN)

UndecodableAtCursor(s) == Recognised(s) # {} /\ UndecodableAt(s, SetMin(Recognised(s)))

C12_SkipsUndecodable ==
    [][(ret'.op = "recv_msg" /\ UndecodableAtCursor(Self))
          => IF IsNone(ret'.m) THEN none_follows(Self', MaxReturns)
             ELSE ret'.m.ofs > SetMin(Recognised(Self))]_vars

---------------------------------------------------------------------------
(* C13: a log that holds no complete record framed as a FMT is never opened:
   whenever open has completed, the log holds a FMT record. *)
FMTRecords ==
    {k \in 0..(Len(data_map) - HDR_LEN) :
        /\ Signature(Self, k) /\ Byte(Self, k + 2) = FMT_TYPE
        /\ k + BuiltinFMT.len <= data_len}

C13_NoFormatIsFatal == pc = "ready" => FMTRecords # {}

---------------------------------------------------------------------------
(* C14: a complete FMT record whose format has a character outside
   FORMAT_TO_STRUCT is fatal where it is processed: the indexing step that
   meets it fails, the recv_msg call that meets it raises, and neither
   changes the format registered for the type id the record names. *)
BadFormatAt(s, k) ==
    /\ Signature(s, k) /\ Byte(s, k + 2) = FMT_TYPE
    /\ k + BuiltinFMT.len <= s.data_len
    /\ DFFormatRaises(FormatOf(Byte(s, k + HDR_LEN + 3)))

SameFormatOf(k) ==
    Get(formats', Byte(Self, k + HDR_LEN), NoFmt) = Get(formats, Byte(Self, k + HDR_LEN), NoFmt)

C14_BadFormatIsFatal ==
    [][/\ (pc = "index" /\ Signatures(Self, ix.ofs) # {}
              /\ BadFormatAt(Self, SetMin(Signatures(Self, ix.ofs))))
          => (pc' = "failed" /\ SameFormatOf(SetMin(Signatures(Self, ix.ofs))))
       /\ (ret'.op = "recv_msg" /\ Recognised(Self) # {}
              /\ BadFormatAt(Self, SetMin(Recognised(Self))))
          => (~ret'.ok /\ SameFormatOf(SetMin(Recognised(Self))))]_vars

---------------------------------------------------------------------------
(* C15: clock selection never fails: a step of either scan of init_clock,
   whatever fields the GPS, GPS2 or TIME record it reads lacks, does not end
   the open with an error. *)
C15_ClockScanNeverFails == [][(pc \in {"clock1", "clock2"}) => ~(pc' = "failed")]_vars

---------------------------------------------------------------------------
(* C16: when clock selection ends without a good clock, the reader has the
   microsecond clock if a message with TimeUS was read, else the millisecond
   clock if a message other than GPS and GPS2 with TimeMS was read, and else
   no clock.
   As the code has it, the last case keeps the interpolating clock that
   init_clock creates before its scans (C16_FallbackClock). *)
SeenTimeUS(msgs) == \E n \in DOMAIN msgs : HasAttr(msgs[n], "TimeUS")
SeenTimeMS(msgs) == \E n \in (DOMAIN msgs) \ {"GPS", "GPS2"} : HasAttr(msgs[n], "TimeMS")

FallbackKind(msgs, last) ==
    IF SeenTimeUS(msgs) THEN "usec" ELSE IF SeenTimeMS(msgs) THEN "msec" ELSE last

SelectionEnds == pc = "clock2" /\ pc' = "ready" /\ ~ic'.have_good_clock

C16_FallbackOrNoClock ==
    [][SelectionEnds => (clock'.kind = FallbackKind(messages', "none"))]_vars

C16_FallbackClock ==
    [][SelectionEnds => (clock'.kind = FallbackKind(messages', "gps_interpolated"))]_vars

C16_KeptInterpolated ==
    /\ Opened /\ ~ic.have_good_clock
    /\ ~SeenTimeUS(messages) /\ ~SeenTimeMS(messages)
    /\ clock.kind = "gps_interpolated"

---------------------------------------------------------------------------
(* C17: when the first scan of init_clock has found a GPS record with TimeUS,
   GWk and GMS whose GWk is above 0, the open selects the microsecond clock,
   whatever else the log holds. *)
ModernGPSFound ==
    /\ ~IsNone(ic.first_modern_gps_message)
    /\ GetNum(ic.first_modern_gps_message, "GWk").n > 0

C17_ModernGPSSelectsUsec == (pc = "ready" /\ ModernGPSFound) => clock.kind = "usec"

---------------------------------------------------------------------------
(* C18: with zero_time_base set, the timebase of the reader's clock is 0
   after the open and after every later call. *)
C18_ZeroTimeBase == (pc = "ready" /\ zero_time_base) => clock.timebase = T0

---------------------------------------------------------------------------
(* C19: under the microsecond clock, when two recv_msg calls in a row return
   messages whose first field is TimeUS, the stamp of the second is not
   smaller than the stamp of the first. *)
TimeUSFirst(m) == ~IsNone(m) /\ Len(m.fmt.columns) > 0 /\ m.fmt.columns[1] = "TimeUS"

C19_UsecStampsNonDecreasing ==
    [][(/\ ret.op = "recv_msg" /\ ret'.op = "recv_msg"
        /\ clock.kind = "usec"
        /\ TimeUSFirst(ret.m) /\ TimeUSFirst(ret'.m))
          => TLeq(ret.ts, ret'.ts)]_vars

---------------------------------------------------------------------------
(* C20: under the microsecond clock, a message returned by recv_msg whose
   first field is not TimeUS is stamped timebase + TimeMS/1000 when its first
   field is TimeMS, its type name does not start with ACC or GYR and that
   stamp is not earlier than the running stamp; in every other case it is
   stamped with the running stamp. Its stamp becomes the running stamp, which
   therefore does not go backwards. *)
MsecStamp(c, m) == TAdd(c.timebase, TUs(m.elements[1] * 1000))

UsesTimeMS(c, m) ==
    /\ Len(m.fmt.columns) > 0 /\ m.fmt.columns[1] = "TimeMS"
    /\ m.fmt.name \notin {"ACC1"}
    /\ ~TLess(MsecStamp(c, m), c.timestamp)

C20_MsecFieldUnderUsec ==
    [][(/\ ret'.op = "recv_msg" /\ clock.kind = "usec"
        /\ ~IsNone(ret'.m) /\ ~TimeUSFirst(ret'.m))
          => /\ ret'.ts = IF UsesTimeMS(clock, ret'.m) THEN MsecStamp(clock, ret'.m)
                          ELSE clock.timestamp
             /\ clock'.timestamp = ret'.ts
             /\ TLeq(clock.timestamp, clock'.timestamp)]_vars

C20_StampedByTimeMS ==
    /\ pc = "ready" /\ ret.op = "recv_msg" /\ clock.kind = "usec"
    /\ ret.m.fmt.name = "IMU" /\ ret.m.elements[1] > 0
    /\ ret.ts = MsecStamp(clock, ret.m)

---------------------------------------------------------------------------
(* C21: when the open, with zero_time_base off, selects the microsecond clock
   from the GPS fix of the first scan, the timebase is the Unix time of that
   fix (GPS week and ms, less 18 leap seconds) less the first TimeUS read in
   the log.
   As the code has it, the TimeUS taken off is that of the fix itself
   (C21_TimebaseFromFix). *)
UnixSeconds(t) == t.e * (86400 * (10 * 365 + 2 + 1 + 6 - 2) - 18) + t.wk * (86400 * 7)

UsecFromFix ==
    /\ pc = "ready" /\ ~zero_time_base /\ clock.kind = "usec"
    /\ ic.have_good_clock /\ ~IsNone(ic.first_modern_gps_message)

FixSeconds(fix) == 315964800 + 604800 * GetNum(fix, "GWk").n - 18

C21_TimebaseFromFirstTimeUS ==
    UsecFromFix =>
       /\ UnixSeconds(clock.timebase) = FixSeconds(ic.first_modern_gps_message)
       /\ clock.timebase.us = GetNum(ic.first_modern_gps_message, "GMS").n * 1000
                              - ic.first_us_stamp

C21_TimebaseFromFix ==
    UsecFromFix =>
       /\ UnixSeconds(clock.timebase) = FixSeconds(ic.first_modern_gps_message)
       /\ clock.timebase.us = GetNum(ic.first_modern_gps_message, "GMS").n * 1000
                              - GetNum(ic.first_modern_gps_message, "TimeUS").n

C21_FixAfterFirstTimeUS ==
    UsecFromFix /\ ic.first_us_stamp # GetNum(ic.first_modern_gps_message, "TimeUS").n

---------------------------------------------------------------------------
(* C22: after a log with a FMT for ATT with the columns X, Y and the format
   iI, the FMT records of UNIT, MULT and FMTU, a UNIT record d -> deg, a MULT
   record - -> 0.01 and a FMTU record binding ATT to the unit ids "d#" and the
   multiplier ids "--", the format of ATT has the instance field Y and the
   units cdeg, cdeg *)
UnitBindingLog ==
    FMT_XY \o FmtRec(5, 6, 7, 7, 7) \o FmtRec(6, 6, 8, 8, 8) \o FMT_FMTU
    \o Rec(5, <<0, 100, 5>>) \o Rec(6, <<0, 45, 255>>) \o Rec(7, <<0, 1, 6, 7>>)

C22_UnitBinding ==
    (data_map = UnitBindingLog /\ pc \in {"clock1", "clock2", "ready"})
    => formats[1].instance_field = "Y" /\ formats[1].units = <<"cdeg", "cdeg">>

(* C22 as amended: the instance column has no unit of its own, as no UNIT
   record gives one to #: the units are cdeg and the empty string *)
C22_UnitBindingNoUnitForInstance ==
    (data_map = UnitBindingLog /\ pc \in {"clock1", "clock2", "ready"})
    => formats[1].instance_field = "Y" /\ formats[1].units = <<"cdeg", "">>

C22_Bound ==
    /\ data_map = UnitBindingLog /\ pc = "ready"
    /\ unit_lookup = (100 :> "deg") /\ mult_lookup = (45 :> 1)
    /\ formats[1].units = <<"cdeg", "">>

---------------------------------------------------------------------------
(* the record that the bytes of a message buffer decode to with the format
   of the record they were made from *)
Decode(fmt, buf) ==
    [fmt |-> fmt, elements |-> [i \in 1..(Len(buf) - HDR_LEN) |-> buf[HDR_LEN + i]],
     ustruct |-> fmt.format, ofs |-> 0, ts |-> NoTS]

RoundTrips(R) ==
    /\ get_msgbuf(R).st = "ok"
    /\ Len(get_msgbuf(R).buf) = HDR_LEN + CalcSize(R.fmt.format)
    /\ get_msgbuf(R).buf[HDR_LEN] = R.fmt.type
    /\ \A i \in 1..Len(R.fmt.columns) :
          GetAttr(Decode(R.fmt, get_msgbuf(R).buf), R.fmt.columns[i]) = GetAttr(R, R.fmt.columns[i])

(* C23: for every record R that recv_msg returns whose type is not FMT, FMTU,
   UNIT or MULT, and whose format has a column for each character, the bytes
   of get_msgbuf(R) decode to a record with the type of R and the value of R
   in every column, also when R has both a Mode and a ModeNum column *)
C23_RoundTrip ==
    (ret.op = "recv_msg" /\ ~IsNone(ret.m)
     /\ get_type(ret.m) \notin {"FMT", "FMTU", "UNIT", "MULT"}
     /\ Len(ret.m.fmt.format) = Len(ret.m.fmt.columns))
    => RoundTrips(ret.m)

---------------------------------------------------------------------------
(* the record of type t at offset o, decoded with the format of t *)
RecordAt(t, o) ==
    [fmt |-> formats[t],
     elements |-> [i \in 1..CalcSize(formats[t].format) |-> Byte(Self, o + HDR_LEN + i - 1)],
     ustruct |-> formats[t].format, ofs |-> o, ts |-> NoTS]

(* the keys T[i] of the records of the log whose type has an instance field *)
InstanceKeys ==
    {InstanceKey(RecordAt(t, offsets[t][n])) :
        <<t, n>> \in {x \in (DOMAIN formats) \X (1..Len(data_map)) :
                         /\ formats[x[1]].instance_field # NoField
                         /\ x[1] \in DOMAIN offsets /\ x[2] <= Len(offsets[x[1]])}}

(* C24: after open, the live map has an entry T[i] if and only if the log has
   a record of type T whose instance field has the value i, wherever that
   record is in the log *)
C24_InstanceUniqueness ==
    (pc = "ready" /\ ret = NoRet)
    => /\ InstanceKeys \subseteq DOMAIN messages
       /\ DOMAIN messages \subseteq InstanceKeys \cup {formats[t].name : t \in DOMAIN formats}

---------------------------------------------------------------------------
(* C29: every format of the registry has as many format characters as column
   names, and every message of that format has as many decoded fields *)
C29_FormatColumnsSlots ==
    /\ \A t \in DOMAIN formats : Len(formats[t].format) = Len(formats[t].columns)
    /\ \A k \in DOMAIN messages :
          Len(messages[k].elements) = Len(messages[k].fmt.format)

---------------------------------------------------------------------------
(* C30: once init_arrays has finished, the offset list of every type id is
   strictly increasing and the count of the type is the length of its list,
   also when the scan ended at an unknown type id (the total `_count` is the
   sum of the counts by its loop at the end of init_arrays) *)
C30_CountsMatchOffsets ==
    pc \in {"clock1", "clock2", "ready"}
    => \A t \in (DOMAIN offsets) \cup (DOMAIN counts) :
          /\ StrictlyIncreasing(Get(offsets, t, <<>>))
          /\ Get(counts, t, 0) = Len(Get(offsets, t, <<>>))

---------------------------------------------------------------------------
(* the FMT record init_arrays reads next, when it lies whole in the data, has
   supported format characters and defines a type id that has a format *)
Redefining ==
    IF pc = "index" /\ Signatures(Self, ix.ofs) # {}
    THEN {k \in {SetMin(Signatures(Self, ix.ofs))} :
             /\ Byte(Self, k + 2) = FMT_TYPE
             /\ k + formats[FMT_TYPE].len <= Len(data_map)
             /\ Byte(Self, k + 3) \in DOMAIN formats
             /\ ~DFFormatRaises(FormatOf(Byte(Self, k + 6)))}
    ELSE {}

(* C26: a FMT record that defines a type id which already has a format gives
   the new format the units and the instance field of the previous one, and
   does not raise *)
C26_RedefinitionKeeps ==
    [][\A k \in Redefining :
          /\ pc' # "failed"
          /\ formats'[Byte(Self, k + 3)].units = formats[Byte(Self, k + 3)].units
          /\ formats'[Byte(Self, k + 3)].instance_field
                = formats[Byte(Self, k + 3)].instance_field]_vars

---------------------------------------------------------------------------
(* C27: a record that recv_msg returns was unpacked with the struct layout of
   the format its type id has in the registry, also after a FMT record has
   defined the type id again with another format string *)
C27_LayoutOfRegistry ==
    (ret.op = "recv_msg" /\ ret.m # NoMsg) => ret.m.ustruct = ret.m.fmt.format

---------------------------------------------------------------------------
(* C28: a message that recv_msg returns, on the first pass or after a rewind,
   has the type id 0x80 or a type id that a FMT record at a lower offset of
   the stream defines *)
C28_DefinedBefore ==
    (ret.op = "recv_msg" /\ ret.m # NoMsg)
    => \/ ret.m.fmt.type = FMT_TYPE
       \/ \E k \in 0..(ret.m.ofs - 1) :
             /\ Byte(Self, k) = HEAD1 /\ Byte(Self, k + 1) = HEAD2
             /\ Byte(Self, k + 2) = FMT_TYPE /\ Byte(Self, k + 3) = ret.m.fmt.type

---------------------------------------------------------------------------
(* DFReader_binary.__init__ up to the call of the indexer *)
Constructed ==
    [Self EXCEPT !.offset = 0, !.remaining = 0, !.prev_type = -1,
                 !.formats = (FMT_TYPE :> BuiltinFMT), !.unpackers = <<>>,
                 !.offsets = <<>>, !.counts = <<>>, !.name_to_id = <<>>,
                 !.type_nums = NoList, !.indexes = <<>>, !.messages = <<>>,
                 !.flightmode = "UNKNOWN", !.mav_type = "FIXED_WING", !.params = <<>>,
                 !.clock = DFReaderClock("none"), !.timestamp = T0,
                 !.flightmodes = NoModes, !.unit_lookup = <<>>, !.mult_lookup = <<>>]

(* the registry, the tables, the counts and the keys and values of the live
   messages of two readers are the same *)
SameIndex(a, b) ==
    /\ a.formats = b.formats
    /\ a.unit_lookup = b.unit_lookup /\ a.mult_lookup = b.mult_lookup
    /\ \A t \in 0..255 : Get(a.counts, t, 0) = Get(b.counts, t, 0)
    /\ DOMAIN a.messages = DOMAIN b.messages
    /\ \A k \in DOMAIN a.messages : a.messages[k].elements = b.messages[k].elements

(* C25: on the same log and with the same offset lists, init_arrays_fast
   leaves the registry with its units and instance fields, the unit and
   multiplier tables, the counts and the seeded live messages as init_arrays
   leaves them, in whatever order the FMT, UNIT, MULT and FMTU records are *)
C25_FastAsPortable ==
    [][(pc = "index" /\ pc' = "clock1")
       => /\ init_arrays_fast(Constructed, offsets').ok
          /\ SameIndex(init_arrays_fast(Constructed, offsets').s, Self')]_vars

---------------------------------------------------------------------------
(* C38: last_timestamp() leaves an in-progress read as it was: the recv_msg
   call that follows it returns the record it would have returned without the
   call, and the live messages map is unchanged *)
C38_LastTimestampIsPure ==
    [][(ret'.op = "last_timestamp" /\ ret'.ok)
       => /\ recv_msg(Self').m.ofs = recv_msg(Self).m.ofs
          /\ recv_msg(Self').m.elements = recv_msg(Self).m.elements
          /\ messages' = messages]_vars

---------------------------------------------------------------------------
(* a pass of recv_msg calls from reader s until one returns None, at most n
   records: the messages returned and the reader left *)
RECURSIVE full_pass(_, _, _)
full_pass(s, seq, n) ==
    LET r == recv_msg(s)
    IN IF ~r.ok \/ IsNone(r.m) \/ n = 0
       THEN [s |-> r.s, seq |-> seq, done |-> r.ok /\ IsNone(r.m)]
       ELSE full_pass(r.s, Append(seq, r.m), n - 1)

(* C35: two complete recv_msg passes over the log, each started by rewind(),
   return the same sequence of (offset, type id) pairs, also when a record
   precedes the FMT record that defines its type id *)
C35_SamePasses ==
    (pc = "ready" /\ ret.op = "rewind")
    => \A p1 \in {full_pass(Self, <<>>, MaxReplay)} :
          \A p2 \in {full_pass(rewind_(p1.s, FALSE), <<>>, MaxReplay)} :
             (p1.done /\ p2.done)
             => /\ Len(p1.seq) = Len(p2.seq)
                /\ \A i \in 1..Len(p1.seq) :
                      /\ p1.seq[i].ofs = p2.seq[i].ofs
                      /\ p1.seq[i].fmt.type = p2.seq[i].fmt.type

---------------------------------------------------------------------------
(* C36: under every clock, a record read in a complete recv_msg pass after
   rewind() gets the timestamp it got in the complete pass before *)
C36_SameStamps ==
    (pc = "ready" /\ ret.op = "rewind")
    => \A p1 \in {full_pass(Self, <<>>, MaxReplay)} :
          \A p2 \in {full_pass(rewind_(p1.s, FALSE), <<>>, MaxReplay)} :
             (p1.done /\ p2.done)
             => \A i \in 1..Len(p1.seq) : \A j \in 1..Len(p2.seq) :
                   p1.seq[i].ofs = p2.seq[j].ofs => p1.seq[i].ts = p2.seq[j].ts

---------------------------------------------------------------------------
(* the time a GPS fix stands for: the time base a new clock takes from it *)
FixTime(m) == gps_message_arrived(DFReaderClock("gps_interpolated"), m).s.timebase

(* the clock after message_arrived has counted a message of the given type *)
Counted(c, type) ==
    [c EXCEPT !.counts_since_gps = Put(@, type, Get(@, type, 0) + 1)]

(* C37: under the GPS-interpolated clock no message and no rewind takes the
   time base back, and a GPS fix whose time is not later than the time base
   leaves the time base, the rates and the counts since the last fix as they
   are when the fix is handled *)
C37_TimebaseNeverDecreases ==
    [][(clock.kind = "gps_interpolated" /\ clock'.kind = "gps_interpolated")
       => /\ TLeq(clock.timebase, clock'.timebase)
          /\ (/\ ret'.op = "recv_msg" /\ ~IsNone(ret'.m)
              /\ get_type(ret'.m) \in {"GPS", "GPS2"}
              /\ TLeq(FixTime(ret'.m), clock.timebase))
             => clock' = Counted(clock, get_type(ret'.m))]_vars

(* recv_msg has returned a GPS fix that is earlier than the time base of the
   interpolating clock, which has rates and has counted the fix *)
C37_EarlierFix ==
    /\ pc = "ready" /\ clock.kind = "gps_interpolated"
    /\ ret.op = "recv_msg" /\ ~IsNone(ret.m) /\ get_type(ret.m) = "GPS"
    /\ TLess(T0, FixTime(ret.m)) /\ TLess(FixTime(ret.m), clock.timebase)
    /\ "GPS" \in DOMAIN clock.msg_rate
    /\ Get(clock.counts_since_gps, "GPS", 0) >= 1

---------------------------------------------------------------------------
(* C34: a message returned by recv_msg or recv_match has had its timestamp
   assigned *)
C34_ReturnedHasTimestamp ==
    (pc = "ready" /\ ret.op \in {"recv_msg", "recv_match"} /\ ~IsNone(ret.m))
    => ret.m.ts # NoTS

---------------------------------------------------------------------------
(* C33: each iteration of the loop of init_arrays that goes on to a further
   iteration leaves the scan offset strictly greater than it found it *)
C33_IndexerAdvances ==
    [][(pc = "index" /\ pc' = "index") => ix'.ofs > ix.ofs]_vars

---------------------------------------------------------------------------
(* C31: the values that indexing passes to the progress callback are strictly
   increasing, so none repeats the one before it, and each lies between 0 and
   100 *)
C31_ProgressInPercent ==
    /\ StrictlyIncreasing(ix.progress)
    /\ \A i \in 1..Len(ix.progress) : ix.progress[i] \in 0..100

---------------------------------------------------------------------------
(* the elements of the line of the text log that starts at offset o, and the
   offsets from a on where a line starts *)
TextLine(o) == text_elements(data_map, o).elements
LineStarts(a) == {o \in a..(data_len - 1) : o = a \/ data_map[o] = "\n"}

(* a line with a type name before its first delimiter, a format for that name
   and as many elements as the format needs *)
Sufficient(o) ==
    /\ Len(TextLine(o)) >= 2
    /\ TextLine(o)[1] \in DOMAIN formats
    /\ Len(TextLine(o)) >= Len(formats[TextLine(o)[1]].format) + 1

(* C32: recv_msg of the text reader returns a message only from a line that
   has no fewer elements than its format needs, which is the first such line
   from the cursor on, and returns None only with the cursor beyond the end of
   the file, when no such line with a newline at its end was left *)
C32_ShortLinesIgnored ==
    [][(pc = "text" /\ ret'.op = "recv_msg" /\ ret'.ok)
       => /\ ~IsNone(ret'.m)
             => /\ ret'.m.ofs \in LineStarts(offset)
                /\ Len(TextLine(ret'.m.ofs)) >= Len(ret'.m.fmt.format) + 1
                /\ Sufficient(ret'.m.ofs)
                /\ \A o \in LineStarts(offset) : o < ret'.m.ofs => ~Sufficient(o)
          /\ IsNone(ret'.m)
             => /\ offset' > data_len
                /\ \A o \in LineStarts(offset) :
                      Sufficient(o) => text_find(data_map, <<"\n">>, o) = -1]_vars

(* recv_msg has returned the message of the line that follows a line of a
   known type with fewer elements than its format needs *)
C32_PassedShortLine ==
    /\ pc = "text" /\ ret.op = "recv_msg" /\ ~IsNone(ret.m)
    /\ \E o \in LineStarts(0) :
          /\ text_elements(data_map, o).endline + 1 = ret.m.ofs
          /\ Len(TextLine(o)) >= 2
          /\ TextLine(o)[1] \in DOMAIN formats
          /\ Len(TextLine(o)) < Len(formats[TextLine(o)[1]].format) + 1

====
